---- MODULE Spec2Model ----
(***************************************************************************)
(* Model of the tracey workspace engine: the dashboard server's rebuild    *)
(* loop and snapshot channel (crates/tracey/src/serve.rs), the daemon's    *)
(* start-up, watcher-event loop and engine (crates/tracey/src/daemon), and *)
(* the LSP bridge's subscription loop (crates/tracey/src/bridge/lsp.rs).   *)
(***************************************************************************)
EXTENDS Integers, Sequences, FiniteSets, TLC

(***************************************************************************)
(* Bounds of the model.                                                    *)
(***************************************************************************)
\* number of distinct values of each part of the workspace tree, minus one
MaxContent == 1
\* number of file-system edits the environment performs
MaxEdits == 2
\* number of reload requests and of subscription stream ends
MaxCalls == 1
\* number of daemon invocations
MaxStarts == 3
\* number of client connections made to one daemon
MaxConns == 2
\* number of accept time-outs the clock runs for
MaxClockSteps == 22
\* number of paths in one batch of watcher events
MaxBatch == 2
\* number of times the watcher's set-up fails
MaxFailures == 2
\* number of markers in the sources, and the highest version of a rule
MaxRefs == 2
MaxVersion == 2

(***************************************************************************)
(* Program constants.                                                      *)
(***************************************************************************)
\* tokio::sync::mpsc::channel::<()>(1)
DEBOUNCE_CAPACITY == 1
\* AtomicU64::new(1), build_dashboard_data(.., 1)
INITIAL_VERSION == 1
\* low 40 bits of the FNV prime 0x100000001b3
FNV_PRIME_LOW == 435
\* the FNV prime's single high bit is bit 40: five bytes up
FNV_PRIME_SHIFT == 5
\* a u64 is eight bytes
U64_BYTES == 8

None == "none"

VARIABLES
    program,        \* what runs: "serve" (serve::run) or the daemon (daemon::run) with a client
    disk,           \* the workspace on disk: [tree, config]
    edits,          \* number of edits made so far (bounded by MaxEdits)
    fs_events,      \* kinds of raw events the debouncer has collected
    \* ---- serve.rs: run_server
    sv_version,     \* version: Arc<AtomicU64>
    sv_data,        \* the value held by the watch channel (tx, rx)
    debounce_ch,    \* number of () tokens in the debounce channel
    sv_rb,          \* the rebuild task: [pc, config, tree, current_hash]
    sv_running,     \* number of rebuild bodies being executed
    sv_reader,      \* an API handler: [pc, data, during]
    sv_published,   \* history: every snapshot sent on the watch channel
    sv_last,        \* history: outcome of the last rebuild iteration
    \* ---- daemon/mod.rs: run, with the engine and the LSP bridge's subscription
    watcher_ch,     \* the WatcherEvent channel between watcher thread and rebuild task
    caller,         \* who may schedule a rebuild: the rebuild task and an RPC handler
    eng_rb,         \* what the rebuild a caller is running has read from disk
    eng_data,       \* the engine's current snapshot
    eng_in_progress,\* a rebuild is in progress
    eng_dirty,      \* a rebuild was requested while one was in progress
    eng_sub,        \* the subscriber's channel: [open, slot]
    bridge,         \* Backend::watch_daemon_rebuilds: [pc, last_version], and as
                    \* history the version of the last update taken (processed)
                    \* and what was done with it since subscribing (outcome)
    rpc_resp,       \* the last answer to a health or status request
    calls,          \* number of requests and stream ends so far (bounded)
    eng_versions,   \* history: every version the engine has published
    \* ---- daemon/mod.rs: run, from its first line to the bound listener
    startup,        \* per daemon process: [pc, engine, listener, saw, result]
    endpoint,       \* the workspace's endpoint path: [file, owner]
    pid_file,       \* daemon.pid: <<>> or <<the process that wrote it>>
    starts,         \* number of daemon invocations so far (bounded)
    \* ---- daemon/mod.rs: run, the accept loop
    clock,          \* start_time.elapsed().as_secs()
    select_wait,    \* seconds the current select has waited
    last_activity,  \* last_activity: Arc<AtomicU64>
    active_connections, \* active_connections: Arc<AtomicUsize>
    conn,           \* per client connection: where it stands
    shutdown_rx,    \* the shutdown watch channel: [value, changed]
    exit_path,      \* which return of the accept loop was taken
    last_change,    \* history: when a connection was last accepted or closed
    conn_end,       \* history: how each connection's task ended
    \* ---- daemon/mod.rs: run_smart_watcher's handler and the rebuild task, on paths
    wt_batch,       \* the paths of the batch the handler was called with
    wt_ch,          \* the WatcherEvent channel
    wt_outcome,     \* what the rebuild task did with the event it received
    wt_changed,     \* the paths the rebuild task gave to schedule_rebuild_with_changes
    wt_config,      \* the config file as the rebuild task read it
    \* ---- daemon/mod.rs: the watcher thread's supervising loop
    sup_pc,         \* where the watcher thread is
    sup_wait,       \* seconds spent in the current sleep
    ws,             \* the WatcherState shared with the health RPC
    wm_dirs,        \* the directories the WatcherManager watches
    cfg_disk,       \* the config file
    sup_rebuild,    \* the rebuild that the last config edit leads to
    sup_failures,   \* history: failed set-ups
    \* ---- bridge/lsp.rs: workspace diagnostics
    lsp_pc,         \* where the bridge is: initialized, ready
    project_root,   \* the bridge's project root
    files_with_diagnostics, \* LspDocState.files_with_diagnostics
    lsp_client,     \* the URIs for which the editor holds a non-empty list
    lsp_cleared,    \* history: the URIs sent an empty list by the last publication
    lsp_before,     \* history: the paths published by the publication before the last
    lsp_new,        \* history: the paths published by the last publication
    \* ---- the engine's snapshot and its diagnostics
    dg_defs,        \* the rules the spec files define
    dg_refs,        \* the markers in the source files
    dg_snapshot,    \* the published snapshot
    dg_last,        \* history: the last edit
    \* ---- the functions checked on their own
    call_args,      \* the arguments of the call
    call_result,    \* <<>> before the call, <<value>> after it
    \* ---- bridge/mcp.rs: tool calls
    active_project_root, \* TraceyHandler.active_project_root
    root_refresh_state,  \* TraceyHandler.root_refresh_state
    mcp_call,       \* history: the parameters of the last tools/call
    mcp_sent,       \* history: the daemon requests the last call made
    mcp_response,   \* history: the text the last call returned
    \* ---- bridge/mcp.rs and bridge/lsp.rs: handlers running concurrently
    task_pc,        \* where each handler is
    task_cwd,       \* the cwd a tool call has parsed
    task_client,    \* the root of the QueryClient that answers a tool call
    task_roots,     \* what roots/list gave the refresh
    active_lock,    \* the task holding active_project_root's write guard
    state_lock,     \* the task holding root_refresh_state's write guard
    doc_lock,       \* the task holding the doc_state mutex
    lsp_at,         \* the step each LSP handler is at
    \* ---- bridge/lsp.rs and the engine: editor buffers
    documents,      \* LspDocState.documents: uri -> content
    vfs_overlay,    \* the engine's overlay map: path -> <<>> or <<content>>
    vfs_disk,       \* the content of the files on disk
    vfs_read,       \* what the engine's last rebuild read for each path
    vfs_last,       \* history: the last vfs call the daemon served for each path
    vfs_sent        \* history: the last vfs call the bridge sent for each uri

envVars == <<disk, edits, fs_events>>
serveVars == <<sv_version, sv_data, debounce_ch, sv_rb, sv_running,
               sv_reader, sv_published, sv_last>>
daemonVars == <<watcher_ch, caller, eng_rb, eng_data, eng_in_progress, eng_dirty,
                eng_sub, bridge, rpc_resp, calls, eng_versions>>
startVars == <<startup, endpoint, pid_file, starts>>
acceptVars == <<clock, select_wait, last_activity, active_connections, conn,
                shutdown_rx, exit_path, last_change, conn_end>>
watchVars == <<wt_batch, wt_ch, wt_outcome, wt_changed, wt_config>>
supVars == <<sup_pc, sup_wait, ws, wm_dirs, cfg_disk, sup_rebuild, sup_failures>>
lspVars == <<lsp_pc, project_root, files_with_diagnostics, lsp_client, lsp_cleared,
             lsp_before, lsp_new>>
dgVars == <<dg_defs, dg_refs, dg_snapshot, dg_last>>
callVars == <<call_args, call_result>>
taskVars == <<task_pc, task_cwd, task_client, task_roots, active_lock, state_lock, doc_lock,
              lsp_at>>
mcpVars == <<active_project_root, root_refresh_state, mcp_call, mcp_sent, mcp_response,
             taskVars>>
vfsVars == <<documents, vfs_overlay, vfs_disk, vfs_read, vfs_last, vfs_sent>>
extraVars == <<callVars, mcpVars, vfsVars>>
restVars == <<acceptVars, watchVars, supVars, lspVars, dgVars, extraVars>>
exceptCall == <<program, envVars, serveVars, daemonVars, startVars, acceptVars, watchVars,
                supVars, lspVars, dgVars, mcpVars, vfsVars>>
exceptMcp == <<program, envVars, serveVars, daemonVars, startVars, acceptVars, watchVars,
               supVars, lspVars, dgVars, callVars, vfsVars>>
exceptVfs == <<program, envVars, serveVars, daemonVars, startVars, acceptVars, watchVars,
               supVars, lspVars, dgVars, callVars, mcpVars>>
exceptAccept == <<program, envVars, serveVars, daemonVars, watchVars, supVars, lspVars,
                  dgVars, extraVars>>
exceptWatch == <<program, envVars, serveVars, daemonVars, startVars, acceptVars, supVars,
                 lspVars, dgVars, extraVars>>
exceptSup == <<program, envVars, serveVars, daemonVars, startVars, acceptVars, watchVars,
               lspVars, dgVars, extraVars>>
exceptLsp == <<program, envVars, serveVars, daemonVars, startVars, acceptVars, watchVars,
               supVars, dgVars, extraVars>>
exceptDg == <<program, envVars, serveVars, daemonVars, startVars, acceptVars, watchVars,
              supVars, lspVars, extraVars>>
vars == <<program, envVars, serveVars, daemonVars, startVars, restVars>>

(***************************************************************************)
(* The workspace.                                                          *)
(***************************************************************************)
\* a code unit sits where it was, or has moved down its file
LineShifts == {0, 1}

\* refs: the rule references found in the sources (drives forward/reverse);
\* lines: where the code units sit in their files (drives code_units_by_file)
Trees == [refs : 0..MaxContent, lines : LineShifts]

\* the config file: parses and is meaningful / parses but is semantically
\* invalid / does not parse / is not there
ConfigFiles == {"valid", "invalid", "malformed", "absent"}

\* crate::load_config(path) is Ok
LoadConfigOk(config) == config \in {"valid", "invalid"}

(***************************************************************************)
(* simple_hash: 64-bit FNV-1a, on little-endian sequences of eight bytes.  *)
(***************************************************************************)
RECURSIVE BitXor(_, _, _)
BitXor(a, b, n) ==
    IF n = 0 THEN 0
    ELSE (((a % 2) + (b % 2)) % 2) + 2 * BitXor(a \div 2, b \div 2, n - 1)

\* 0xcbf29ce484222325
FNV_OFFSET_BASIS == <<37, 35, 34, 132, 228, 156, 242, 203>>

\* hash ^= byte as u64
XorByte(hash, byte) == [hash EXCEPT ![1] = BitXor(hash[1], byte, 8)]

\* hash.wrapping_mul(0x100000001b3), limb by limb with carry
\* (each intermediate value is bound through a singleton set, so that it is
\* computed once)
RECURSIVE MulLimbs(_, _, _)
MulLimbs(hash, i, carry) ==
    IF i > U64_BYTES THEN <<>>
    ELSE CHOOSE limbs \in
           { <<t % 256>> \o MulLimbs(hash, i + 1, t \div 256) :
               t \in { (hash[i] * FNV_PRIME_LOW)
                       + (IF i > FNV_PRIME_SHIFT THEN hash[i - FNV_PRIME_SHIFT] ELSE 0)
                       + carry } } : TRUE

WrappingMulPrime(hash) == MulLimbs(hash, 1, 0)

\* for byte in s.bytes() { hash ^= byte as u64; hash = hash.wrapping_mul(PRIME) }
RECURSIVE HashFrom(_, _)
HashFrom(hash, bytes) ==
    IF bytes = <<>> THEN hash
    ELSE CHOOSE result \in
           { HashFrom(h, Tail(bytes)) :
               h \in { WrappingMulPrime(x) : x \in {XorByte(hash, Head(bytes))} } } : TRUE

simple_hash(s) == HashFrom(FNV_OFFSET_BASIS, s)

\* u64 ^ u64
Xor64(a, b) ==
    CHOOSE result \in
      { [i \in 1..U64_BYTES |-> BitXor(x[i], y[i], 8)] : x \in {a}, y \in {b} } : TRUE

(***************************************************************************)
(* build_dashboard_data                                                    *)
(***************************************************************************)
\* ApiForwardData::to_json / ApiReverseData::to_json, as byte strings
ForwardJson(forward) == <<102, 48 + forward.impl_refs>>
ReverseJson(reverse) == <<114, 48 + reverse.total_units, 48 + reverse.covered_units>>

\* build_dashboard_data fails (the `?` and bail! paths)
BuildNeverFails(config) == FALSE
BuildFails(config) == config = "invalid"

\* content_hash: the hashes of the two serialised views, xor-ed
content_hash(forward, reverse) ==
    Xor64(simple_hash(ForwardJson(forward)), simple_hash(ReverseJson(reverse)))

\* the forward and reverse data a build computes from a workspace
ForwardData(tree) == [impl_refs |-> tree.refs]
ReverseData(tree) == [total_units |-> MaxContent, covered_units |-> tree.refs]

\* content_hash over the builds of every workspace, each computed once
ContentHashOf == [t \in Trees |-> content_hash(ForwardData(t), ReverseData(t))]

BuildDashboardData(tree, config, version) ==
    LET forward == ForwardData(tree)
        reverse == ReverseData(tree)
    IN  [ config |-> config,
          forward |-> forward,
          reverse |-> reverse,
          code_units_by_file |-> [start_line |-> tree.lines, rule_refs |-> tree.refs],
          version |-> version,
          content_hash |-> ContentHashOf[tree] ]

(***************************************************************************)
(* Environment: edits of the workspace, seen by the file watcher.          *)
(***************************************************************************)
\* an edit of a watched file: a source or spec file, or the config file
EditFile ==
    /\ edits < MaxEdits
    /\ \/ /\ \E t \in Trees \ {disk.tree} : disk' = [disk EXCEPT !.tree = t]
          /\ fs_events' = fs_events \cup {"source"}
       \/ /\ \E c \in ConfigFiles \ {disk.config} : disk' = [disk EXCEPT !.config = c]
          /\ fs_events' = fs_events \cup {"config"}
    /\ edits' = edits + 1
    /\ UNCHANGED <<program, restVars, startVars, serveVars, daemonVars>>

\* an edit below node_modules, target, .git, dashboard or .vite: it does not
\* change what a build reads
EditIgnored ==
    /\ edits < MaxEdits
    /\ edits' = edits + 1
    /\ fs_events' = fs_events \cup {"ignored"}
    /\ UNCHANGED <<program, restVars, startVars, disk, serveVars, daemonVars>>

(***************************************************************************)
(* serve.rs: the file watcher thread.                                      *)
(***************************************************************************)
\* the debouncer's callback (serve.rs): when every event of the batch lies under
\* an ignored directory nothing is sent; otherwise debounce_tx.blocking_send(()),
\* which returns only once the channel has room (until then the batch waits)
SvRelevantIfNoneIgnored(events) ==
    events \cap {"source", "config"} # {} /\ "ignored" \notin events
SvRelevant(events) == events \cap {"source", "config"} # {}

SvDebouncerCallback ==
    /\ program = "serve"
    /\ fs_events # {}
    /\ fs_events' = {}
    /\ \/ /\ ~SvRelevant(fs_events)
          /\ UNCHANGED debounce_ch
       \/ /\ SvRelevant(fs_events)
          /\ debounce_ch < DEBOUNCE_CAPACITY
          /\ debounce_ch' = debounce_ch + 1
    /\ UNCHANGED <<program, restVars, startVars, disk, edits, sv_version, sv_data, sv_rb, sv_running,
                   sv_reader, sv_published, sv_last, daemonVars>>

(***************************************************************************)
(* serve.rs: the rebuild task.                                             *)
(***************************************************************************)
\* the task takes the next token only at the top of its loop
SvCanRecvAlways(rb) == TRUE
SvCanRecv(rb) == rb.pc = "recv"

\* rebuild_version.fetch_add(1, SeqCst) + 1
SvNewVersionNoAdd(counter) == counter
SvNewVersion(counter) == counter + 1

\* data.content_hash != current_hash
SvContentChangedAlways(new_hash, current_hash) == TRUE
SvContentChanged(new_hash, current_hash) == new_hash # current_hash

\* rebuild_tx.send(Arc::new(data)): the channel's value is replaced as a whole
WatchSendInPlace(current, data) ==
    [current EXCEPT !.forward = data.forward, !.version = data.version,
                    !.content_hash = data.content_hash]
WatchSend(current, data) == data

NoTree == [refs |-> 0, lines |-> 0]

SvIdle == [pc |-> "recv", config |-> None, tree |-> NoTree, current_hash |-> <<>>]

\* debounce_rx.recv(), load_config, and the read of the current hash
SvRebuildBegin ==
    /\ program = "serve"
    /\ SvCanRecv(sv_rb)
    /\ debounce_ch > 0
    /\ debounce_ch' = debounce_ch - 1
    /\ \/ /\ ~LoadConfigOk(disk.config)          \* Err(e) => continue
          /\ sv_last' = "config_error"
          /\ UNCHANGED <<sv_rb, sv_running>>
       \/ /\ LoadConfigOk(disk.config)
          /\ sv_rb' = [pc |-> "building", config |-> disk.config, tree |-> disk.tree,
                       current_hash |-> sv_data.content_hash]
          /\ sv_running' = sv_running + 1
          /\ UNCHANGED sv_last
    /\ UNCHANGED <<program, restVars, startVars, envVars, sv_version, sv_data, sv_reader, sv_published, daemonVars>>

\* the data a running rebuild produces (placeholder version 0)
SvBuilt == BuildDashboardData(sv_rb.tree, sv_rb.config, 0)

\* build_dashboard_data returns; publish when the hash changed
SvRebuildEnd ==
    /\ program = "serve"
    /\ sv_rb.pc = "building"
    /\ sv_rb' = SvIdle
    /\ sv_running' = sv_running - 1
    /\ \/ /\ BuildFails(sv_rb.config)             \* Err(e): "Rebuild error"
          /\ sv_last' = "build_error"
          /\ UNCHANGED <<sv_version, sv_data, sv_published>>
       \/ /\ ~BuildFails(sv_rb.config)
          /\ SvContentChanged(SvBuilt.content_hash, sv_rb.current_hash)
          /\ sv_version' = sv_version + 1         \* fetch_add
          /\ sv_data' = WatchSend(sv_data,
                            [SvBuilt EXCEPT !.version = SvNewVersion(sv_version)])
          /\ sv_published' = sv_published \cup {sv_data'}
          /\ sv_last' = "published"
       \/ /\ ~BuildFails(sv_rb.config)
          /\ ~SvContentChanged(SvBuilt.content_hash, sv_rb.current_hash)
          /\ sv_last' = "unchanged"
          /\ UNCHANGED <<sv_version, sv_data, sv_published>>
    /\ UNCHANGED <<program, restVars, startVars, envVars, debounce_ch, sv_reader, daemonVars>>

(***************************************************************************)
(* serve.rs: the API handlers.                                             *)
(***************************************************************************)
\* a handler clones the channel's value whatever the rebuild task is doing
ApiCanBorrow(rb) == TRUE

\* data is the cloned Arc, when the handler holds one
ReaderIdle == [pc |-> "idle", data |-> <<>>, during |-> None]

\* let data = state.data.borrow().clone();
ApiBorrow ==
    /\ program = "serve"
    /\ sv_reader.pc = "idle"
    /\ ApiCanBorrow(sv_rb)
    /\ sv_reader' = [pc |-> "holding", data |-> <<sv_data>>, during |-> sv_rb.pc]
    /\ UNCHANGED <<program, restVars, startVars, envVars, sv_version, sv_data, debounce_ch, sv_rb,
                   sv_running, sv_published, sv_last, daemonVars>>

\* json_response(data.<view>.to_json()); the handle is dropped
ApiRespond ==
    /\ program = "serve"
    /\ sv_reader.pc = "holding"
    /\ sv_reader' = ReaderIdle
    /\ UNCHANGED <<program, restVars, startVars, envVars, sv_version, sv_data, debounce_ch, sv_rb,
                   sv_running, sv_published, sv_last, daemonVars>>

(***************************************************************************)
(* The engine (daemon/engine.rs): Engine::new, rebuild,                    *)
(* schedule_rebuild_with_changes and subscribe.                            *)
(***************************************************************************)
\* the daemon runs with a command-line client or with the LSP bridge connected
IsDaemon == program \in {"daemon+cli", "daemon+lsp"}

\* daemon::run has constructed the engine and spawned its watcher and tasks
DmRunning == IsDaemon /\ eng_versions # {}

Callers == {"rebuild_task", "rpc_handler"}

\* the version of the snapshot Engine::new builds
ENGINE_FIRST_VERSION == 1

\* the engine's config check: the file parses and every spec resolves to one
\* prefix and carries no deprecated `prefix` field
EngConfigError(config) == IF config = "valid" THEN None ELSE config

\* hash of the materialized public views
EngContentHash(forward, reverse) ==
    simple_hash(<<48 + Cardinality(forward)>>
                \o (IF reverse = {} THEN <<>>
                    ELSE LET unit == CHOOSE u \in reverse : TRUE
                         IN  <<48 + unit.start_line, 48 + unit.rule_refs>>))

EngEmptyViews == [forward_by_impl |-> {}, reverse_by_file |-> {}]

\* the engine cell before Engine::new has filled it
EngUnbuilt ==
    [ version |-> 0, content_hash |-> <<>>, config |-> None, config_error |-> None,
      forward_by_impl |-> {}, reverse_by_file |-> {} ]

EngViews(d) == [forward_by_impl |-> d.forward_by_impl,
                reverse_by_file |-> d.reverse_by_file]

\* the views a build computes from a workspace
EngForward(tree) == 1..tree.refs
EngReverse(tree) == {[start_line |-> tree.lines, rule_refs |-> tree.refs]}

\* the hash of the views of every workspace, and of the empty views, each
\* computed once
EngContentHashOf == [t \in Trees |-> EngContentHash(EngForward(t), EngReverse(t))]
EngEmptyHash ==
    EngContentHash(EngEmptyViews.forward_by_impl, EngEmptyViews.reverse_by_file)

\* the snapshot a build of a workspace with a good config computes
EngBuild(tree, config, version) ==
    LET forward == EngForward(tree)
        reverse == EngReverse(tree)
    IN  [ version |-> version,
          content_hash |-> EngContentHashOf[tree],
          config |-> config,
          config_error |-> None,
          forward_by_impl |-> forward,
          reverse_by_file |-> reverse ]

EngineNewIgnoresConfigError(tree, config) ==
    EngBuild(tree, config, ENGINE_FIRST_VERSION)

\* Engine::new: always an engine; with a bad config the error is recorded and
\* the snapshot holds empty data
EngineNew(tree, config) ==
    IF EngConfigError(config) = None
    THEN EngBuild(tree, config, ENGINE_FIRST_VERSION)
    ELSE [ version |-> ENGINE_FIRST_VERSION,
           content_hash |-> EngEmptyHash,
           config |-> None,
           config_error |-> EngConfigError(config),
           forward_by_impl |-> EngEmptyViews.forward_by_impl,
           reverse_by_file |-> EngEmptyViews.reverse_by_file ]

\* rebuild, steps (c) to (e), on what steps (a) and (b) have read:
\* a bad config keeps the previous data and records the error; otherwise the
\* version advances exactly when the content hash changed
EngRebuilt(current, tree, config) ==
    IF EngConfigError(config) # None
    THEN [current EXCEPT !.config_error = EngConfigError(config)]
    ELSE CHOOSE new \in
           { IF built.content_hash # current.content_hash
             THEN [built EXCEPT !.version = current.version + 1]
             ELSE built : built \in {EngBuild(tree, config, current.version)} } : TRUE

\* the coalescing test of schedule_rebuild_with_changes
EngRebuildInProgress(flag) == flag

\* the re-check an in-flight rebuild makes when it completes
EngRunAgain(dirty) == dirty

\* a notification put on a subscriber's single-slot channel
ChannelOfferPrepend(slot, update) == <<update>> \o slot
ChannelOfferKeepsOld(slot, update) == IF slot = <<>> THEN <<update>> ELSE slot
ChannelOffer(slot, update) == <<update>>

EngReadDisk == [tree |-> disk.tree, config |-> disk.config]
EngNoRebuild == [tree |-> NoTree, config |-> None]

\* schedule_rebuild_with_changes, called by p
ScheduleRebuild(p) ==
    IF EngRebuildInProgress(eng_in_progress)
    THEN /\ eng_dirty' = TRUE
         /\ UNCHANGED <<caller, eng_rb, eng_in_progress>>
    ELSE /\ eng_in_progress' = TRUE
         /\ caller' = [caller EXCEPT ![p] = "rebuilding"]
         /\ eng_rb' = [eng_rb EXCEPT ![p] = EngReadDisk]
         /\ UNCHANGED eng_dirty

\* the rebuild p is running completes: publish, notify, re-check
EngRebuildEnd(p) ==
    /\ DmRunning
    /\ caller[p] = "rebuilding"
    /\ \E new \in {EngRebuilt(eng_data, eng_rb[p].tree, eng_rb[p].config)} :
           /\ eng_data' = new
           /\ eng_versions' = eng_versions \cup {new.version}
           /\ eng_sub' = IF eng_sub.open
                         THEN [eng_sub EXCEPT !.slot = ChannelOffer(@, new.version)]
                         ELSE eng_sub
    /\ \/ /\ EngRunAgain(eng_dirty)
          /\ eng_dirty' = FALSE
          /\ eng_rb' = [eng_rb EXCEPT ![p] = EngReadDisk]
          /\ UNCHANGED <<caller, eng_in_progress>>
       \/ /\ ~EngRunAgain(eng_dirty)
          /\ eng_in_progress' = FALSE
          /\ caller' = [caller EXCEPT ![p] = "idle"]
          /\ eng_rb' = [eng_rb EXCEPT ![p] = EngNoRebuild]
          /\ UNCHANGED eng_dirty
    /\ UNCHANGED <<program, restVars, startVars, envVars, serveVars, watcher_ch, bridge, rpc_resp, calls>>

(***************************************************************************)
(* daemon/mod.rs: the watcher's event handler and the rebuild task.        *)
(***************************************************************************)
\* Engine::new(project_root, config_path) in run
DmEngineNew ==
    /\ IsDaemon
    /\ eng_versions = {}
    /\ eng_data' = EngineNew(disk.tree, disk.config)
    /\ eng_versions' = {ENGINE_FIRST_VERSION}
    /\ UNCHANGED <<program, restVars, startVars, envVars, serveVars, watcher_ch, caller, eng_rb,
                   eng_in_progress, eng_dirty, eng_sub, bridge, rpc_resp, calls>>

\* tokio::sync::mpsc::channel::<WatcherEvent>(16)
WATCHER_CAPACITY == 16

\* any path of the batch triggers reconfiguration
NeedsReconfigure(events) == "config" \in events

\* the batch handler of run_smart_watcher: one event per non-empty batch,
\* sent with blocking_send
DmWatcherHandler ==
    /\ DmRunning
    /\ fs_events # {}
    /\ Len(watcher_ch) < WATCHER_CAPACITY
    /\ fs_events' = {}
    /\ \/ /\ NeedsReconfigure(fs_events)
          /\ watcher_ch' = Append(watcher_ch, [type |-> "Reconfigure", paths |-> {}])
       \/ /\ ~NeedsReconfigure(fs_events)
          /\ watcher_ch' = Append(watcher_ch,
                                  [type |-> "FilesChanged", paths |-> fs_events])
    /\ UNCHANGED <<program, restVars, startVars, disk, edits, serveVars, caller, eng_rb, eng_data,
                   eng_in_progress, eng_dirty, eng_sub, bridge, rpc_resp, calls,
                   eng_versions>>

\* the paths of a batch that pass the temp-artifact, gitignore, exclude and
\* include filters
RelevantPaths(paths) == paths \cap {"source"}

\* the rebuild task: watcher_rx.recv() and the match on the event
DmRebuildTask ==
    /\ DmRunning
    /\ caller["rebuild_task"] = "idle"
    /\ watcher_ch # <<>>
    /\ watcher_ch' = Tail(watcher_ch)
    /\ LET event == Head(watcher_ch)
       IN  \/ /\ event.type = "Reconfigure"
              /\ ScheduleRebuild("rebuild_task")
           \/ /\ event.type = "FilesChanged"
              /\ RelevantPaths(event.paths) = {}            \* continue
              /\ UNCHANGED <<caller, eng_rb, eng_in_progress, eng_dirty>>
           \/ /\ event.type = "FilesChanged"
              /\ RelevantPaths(event.paths) # {}
              /\ ScheduleRebuild("rebuild_task")
    /\ UNCHANGED <<program, restVars, startVars, envVars, serveVars, eng_data, eng_sub, bridge, rpc_resp,
                   calls, eng_versions>>

(***************************************************************************)
(* The RPC service (daemon/service.rs): reload, health and status.         *)
(***************************************************************************)
\* a handler that asks the engine for a rebuild
RpcReload ==
    /\ DmRunning /\ program = "daemon+cli"
    /\ caller["rpc_handler"] = "idle"
    /\ calls < MaxCalls
    /\ calls' = calls + 1
    /\ ScheduleRebuild("rpc_handler")
    /\ UNCHANGED <<program, restVars, startVars, envVars, serveVars, watcher_ch, eng_data, eng_sub, bridge,
                   rpc_resp, eng_versions>>

\* health and status answer from the current snapshot
QueryOps == {"health", "status"}

RpcQuery(op) ==
    /\ DmRunning /\ program = "daemon+cli"
    /\ calls < MaxCalls
    /\ calls' = calls + 1
    /\ rpc_resp' = <<[op |-> op,
                      version |-> eng_data.version,
                      result |-> IF op = "health"
                                 THEN [config_error |-> eng_data.config_error]
                                 ELSE EngViews(eng_data)]>>
    /\ UNCHANGED <<program, restVars, startVars, envVars, serveVars, watcher_ch, caller, eng_rb, eng_data,
                   eng_in_progress, eng_dirty, eng_sub, bridge, eng_versions>>

(***************************************************************************)
(* bridge/lsp.rs: Backend::watch_daemon_rebuilds.                          *)
(***************************************************************************)
\* roam::channel and daemon_client.subscribe(tx)
BrSubscribeForgetsVersion ==
    /\ DmRunning /\ program = "daemon+lsp"
    /\ bridge.pc = "subscribe"
    /\ bridge' = [bridge EXCEPT !.pc = "recv", !.outcome = None, !.last_version = <<>>]
    /\ eng_sub' = [open |-> TRUE, slot |-> <<>>]
    /\ UNCHANGED <<program, restVars, startVars, envVars, serveVars, watcher_ch, caller, eng_rb, eng_data,
                   eng_in_progress, eng_dirty, rpc_resp, calls, eng_versions>>

BrSubscribe ==
    /\ DmRunning /\ program = "daemon+lsp"
    /\ bridge.pc = "subscribe"
    /\ bridge' = [bridge EXCEPT !.pc = "recv", !.outcome = None]
    /\ eng_sub' = [open |-> TRUE, slot |-> <<>>]
    /\ UNCHANGED <<program, restVars, startVars, envVars, serveVars, watcher_ch, caller, eng_rb, eng_data,
                   eng_in_progress, eng_dirty, rpc_resp, calls, eng_versions>>

\* rx.recv() yields an update (last_version is an Option: <<>> or <<v>>):
\* skipped when its version is the last one seen,
\* otherwise remembered (and the workspace diagnostics are published again)
BrRecv ==
    /\ DmRunning /\ program = "daemon+lsp"
    /\ bridge.pc = "recv"
    /\ eng_sub.slot # <<>>
    /\ eng_sub' = [eng_sub EXCEPT !.slot = Tail(@)]
    /\ LET update == Head(eng_sub.slot)
       IN  \/ /\ bridge.last_version = <<update>>
              /\ bridge' = [bridge EXCEPT !.processed = <<update>>, !.outcome = "skipped"]
           \/ /\ bridge.last_version # <<update>>
              /\ bridge' = [bridge EXCEPT !.last_version = <<update>>,
                                          !.processed = <<update>>, !.outcome = "published"]
    /\ UNCHANGED <<program, restVars, startVars, envVars, serveVars, watcher_ch, caller, eng_rb, eng_data,
                   eng_in_progress, eng_dirty, rpc_resp, calls, eng_versions>>

\* the stream ends: the subscribe task is aborted and, 250 ms later, the loop
\* subscribes again
BrStreamEnds ==
    /\ DmRunning /\ program = "daemon+lsp"
    /\ bridge.pc = "recv"
    /\ calls < MaxCalls
    /\ calls' = calls + 1
    /\ bridge' = [bridge EXCEPT !.pc = "subscribe"]
    /\ eng_sub' = [open |-> FALSE, slot |-> <<>>]
    /\ UNCHANGED <<program, restVars, startVars, envVars, serveVars, watcher_ch, caller, eng_rb, eng_data,
                   eng_in_progress, eng_dirty, rpc_resp, eng_versions>>

(***************************************************************************)
(* daemon/mod.rs: run, start-up and exit of the daemon processes of one    *)
(* workspace.                                                              *)
(***************************************************************************)
Daemons == {"d1", "d2"}

StartupOff ==
    [pc |-> "off", engine |-> FALSE, listener |-> FALSE, saw |-> None, result |-> None]

NoEndpoint == [file |-> FALSE, owner |-> None]

\* roam_local::connect(&endpoint).await.is_ok(): some process listens on the
\* socket the path names
ConnectOk == endpoint.file /\ endpoint.owner \in Daemons
                /\ startup[endpoint.owner].listener

\* let _ = roam_local::remove_endpoint(&endpoint)
RemoveEndpointNoop(ep) == ep
RemoveEndpoint(ep) == NoEndpoint

\* PidFile's Drop: std::fs::remove_file(&self.path)
PidFileDrop(d) == <<>>

\* a `tracey daemon` process is started for the workspace; ensure_state_dir
DmInvoke(d) ==
    /\ program = "daemon start-up"
    /\ startup[d].pc = "off"
    /\ starts < MaxStarts
    /\ starts' = starts + 1
    /\ startup' = [startup EXCEPT ![d] = [StartupOff EXCEPT !.pc = "pid_file"]]
    /\ UNCHANGED <<program, restVars, envVars, serveVars, daemonVars, endpoint, pid_file>>

\* PidFile::create
DmPidFileCreate(d) ==
    /\ program = "daemon start-up"
    /\ startup[d].pc = "pid_file"
    /\ pid_file' = <<d>>
    /\ startup' = [startup EXCEPT ![d].pc = "endpoint_exists"]
    /\ UNCHANGED <<program, restVars, envVars, serveVars, daemonVars, endpoint, starts>>

\* if roam_local::endpoint_exists(&endpoint)
DmEndpointExists(d) ==
    /\ program = "daemon start-up"
    /\ startup[d].pc = "endpoint_exists"
    /\ \/ /\ endpoint.file
          /\ startup' = [startup EXCEPT ![d].pc = "connect"]
       \/ /\ ~endpoint.file
          /\ startup' = [startup EXCEPT ![d].pc = "engine", ![d].saw = "absent"]
    /\ UNCHANGED <<program, restVars, envVars, serveVars, daemonVars, endpoint, pid_file, starts>>

\* if roam_local::connect(&endpoint).await.is_ok() { bail!("Daemon already
\* running") } else { remove the stale endpoint }; bail! drops the PidFile
DmConnect(d) ==
    /\ program = "daemon start-up"
    /\ startup[d].pc = "connect"
    /\ \/ /\ ConnectOk
          /\ startup' = [startup EXCEPT ![d].pc = "off", ![d].saw = "live",
                                        ![d].result = "Daemon already running"]
          /\ pid_file' = PidFileDrop(d)
          /\ UNCHANGED endpoint
       \/ /\ ~ConnectOk
          /\ startup' = [startup EXCEPT ![d].pc = "remove_endpoint", ![d].saw = "stale"]
          /\ UNCHANGED <<endpoint, pid_file>>
    /\ UNCHANGED <<program, restVars, envVars, serveVars, daemonVars, starts>>

\* info!("Removing stale socket"); let _ = roam_local::remove_endpoint(&endpoint)
DmRemoveStale(d) ==
    /\ program = "daemon start-up"
    /\ startup[d].pc = "remove_endpoint"
    /\ endpoint' = RemoveEndpoint(endpoint)
    /\ startup' = [startup EXCEPT ![d].pc = "engine"]
    /\ UNCHANGED <<program, restVars, envVars, serveVars, daemonVars, pid_file, starts>>

\* Engine::new(...).await.wrap_err("Failed to initialize engine")?
DmCreateEngine(d) ==
    /\ program = "daemon start-up"
    /\ startup[d].pc = "engine"
    /\ \/ /\ startup' = [startup EXCEPT ![d].pc = "bind", ![d].engine = TRUE]
          /\ UNCHANGED pid_file
       \/ /\ startup' = [startup EXCEPT ![d].pc = "off",
                                        ![d].result = "Failed to initialize engine"]
          /\ pid_file' = PidFileDrop(d)
    /\ UNCHANGED <<program, restVars, envVars, serveVars, daemonVars, endpoint, starts>>

\* LocalListener::bind(&endpoint).wrap_err_with("Failed to bind socket")?
DmBind(d) ==
    /\ program = "daemon start-up"
    /\ startup[d].pc = "bind"
    /\ \/ /\ ~endpoint.file
          /\ endpoint' = [file |-> TRUE, owner |-> d]
          /\ startup' = [startup EXCEPT ![d].pc = "accept", ![d].listener = TRUE]
          /\ UNCHANGED pid_file
       \/ /\ endpoint.file
          /\ startup' = [startup EXCEPT ![d].pc = "off", ![d].engine = FALSE,
                                        ![d].result = "Failed to bind socket"]
          /\ pid_file' = PidFileDrop(d)
          /\ UNCHANGED endpoint
    /\ UNCHANGED <<program, restVars, envVars, serveVars, daemonVars, starts>>

\* the accept loop returns (idle timeout or shutdown request):
\* remove_endpoint, return Ok(()), and the PidFile and the listener drop
DmExit(d) ==
    /\ program = "daemon start-up"
    /\ startup[d].pc = "accept"
    /\ endpoint' = RemoveEndpoint(endpoint)
    /\ pid_file' = PidFileDrop(d)
    /\ startup' = [startup EXCEPT ![d].pc = "off", ![d].engine = FALSE,
                                  ![d].listener = FALSE, ![d].result = "Ok"]
    /\ UNCHANGED <<program, restVars, envVars, serveVars, daemonVars, starts>>

\* the process is killed: nothing is cleaned up, the endpoint stays behind
DmKilled(d) ==
    /\ program = "daemon start-up"
    /\ startup[d].pc # "off"
    /\ startup' = [startup EXCEPT ![d].pc = "off", ![d].engine = FALSE,
                                  ![d].listener = FALSE, ![d].result = "killed"]
    /\ UNCHANGED <<program, restVars, envVars, serveVars, daemonVars, endpoint, pid_file, starts>>

(***************************************************************************)
(* daemon/mod.rs: run, the accept loop and the connection tasks.           *)
(***************************************************************************)
\* tokio::time::timeout(Duration::from_secs(30), listener.accept())
ACCEPT_TIMEOUT_SECS == 30
DEFAULT_IDLE_TIMEOUT_SECS == 600

Conns == 1..MaxConns

\* start_time.elapsed().as_secs() is read once per accept time-out
ClockStep == ACCEPT_TIMEOUT_SECS

\* the daemon process whose accept loop is followed
Acceptor == "d1"

InAcceptLoop ==
    /\ program \in {"daemon accept loop", "daemon connections"}
    /\ startup[Acceptor].pc = "accept"

\* how a connection task ends: accept(stream, config, dispatcher) fails, or
\* driver.run() returns Ok or one of its errors
ConnEnds == {"SetupFailed", "Ok", "Closed", "ProtocolViolation", "Io", "Dispatch",
             "UnsupportedProtocolVersion"}

\* the ends of the connection tasks are recorded where the connections are
\* looked at
KeepsConnEnd == program = "daemon connections"

\* now.saturating_sub(last)
SaturatingSub(a, b) == IF a >= b THEN a - b ELSE 0

IdleCheckNever(current_connections, idle_secs) == FALSE

\* if current_connections == 0 { ... if idle_secs >= DEFAULT_IDLE_TIMEOUT_SECS
IdleCheck(current_connections, idle_secs) ==
    current_connections = 0 /\ idle_secs >= DEFAULT_IDLE_TIMEOUT_SECS

\* if *shutdown_rx.borrow()
ShutdownSeenNever(value) == FALSE
ShutdownSeen(value) == value

\* let _ = roam_local::remove_endpoint(&endpoint); return Ok(()): the listener
\* and the PidFile drop with run's frame
AcReturn(path) ==
    /\ endpoint' = RemoveEndpoint(endpoint)
    /\ pid_file' = PidFileDrop(Acceptor)
    /\ startup' = [startup EXCEPT ![Acceptor].pc = "off", ![Acceptor].engine = FALSE,
                                  ![Acceptor].listener = FALSE, ![Acceptor].result = "Ok"]
    /\ exit_path' = path

\* time passes while the select waits; the time-out branch is taken no later
\* than 30 s after the select began, and a connection task does not suspend
\* between its fetch_sub and its store
AcTick ==
    /\ InAcceptLoop
    /\ clock < MaxClockSteps * ClockStep
    /\ select_wait < ACCEPT_TIMEOUT_SECS
    /\ \A c \in Conns : conn[c] # "closing"
    /\ clock' = clock + ClockStep
    /\ select_wait' = select_wait + ClockStep
    /\ UNCHANGED <<exceptAccept, startVars, last_activity, active_connections, conn,
                   shutdown_rx, exit_path, last_change, conn_end>>

\* a client connects to the endpoint
ClConnect(c) ==
    /\ InAcceptLoop
    /\ conn[c] = "unconnected"
    /\ conn' = [conn EXCEPT ![c] = "pending"]
    /\ UNCHANGED <<exceptAccept, startVars, clock, select_wait, last_activity,
                   active_connections, shutdown_rx, exit_path, last_change, conn_end>>

\* Ok(Ok(stream)): last_activity.store(now); active_connections.fetch_add(1);
\* the connection task is spawned and the loop selects again
AcAccept(c) ==
    /\ InAcceptLoop
    /\ conn[c] = "pending"
    /\ last_activity' = clock
    /\ active_connections' = active_connections + 1
    /\ conn' = [conn EXCEPT ![c] = "open"]
    /\ select_wait' = 0
    /\ last_change' = clock
    /\ UNCHANGED <<exceptAccept, startVars, clock, shutdown_rx, exit_path, conn_end>>

\* Ok(Err(e)): error!("Failed to accept connection"), and the loop selects again
AcAcceptFails(c) ==
    /\ InAcceptLoop
    /\ conn[c] = "pending"
    /\ conn' = [conn EXCEPT ![c] = "gone"]
    /\ select_wait' = 0
    /\ UNCHANGED <<exceptAccept, startVars, clock, last_activity, active_connections,
                   shutdown_rx, exit_path, last_change, conn_end>>

\* a variant of the connection task that counts down only after a clean end
CnDriverEndsKeepsCountOnError(c) ==
    /\ InAcceptLoop
    /\ conn[c] = "open"
    /\ conn' = [conn EXCEPT ![c] = "closing"]
    /\ \E end \in ConnEnds :
          /\ conn_end' = IF KeepsConnEnd THEN [conn_end EXCEPT ![c] = end] ELSE conn_end
          /\ active_connections' = IF end \in {"Ok", "Closed"} THEN active_connections - 1
                                   ELSE active_connections
    /\ last_change' = clock
    /\ UNCHANGED <<exceptAccept, startVars, clock, select_wait, last_activity,
                   shutdown_rx, exit_path>>

\* the connection task: the handshake fails, or driver.run() returns, with or
\* without an error; whichever it is, active_connections.fetch_sub(1)
CnDriverEnds(c) ==
    /\ InAcceptLoop
    /\ conn[c] = "open"
    /\ conn' = [conn EXCEPT ![c] = "closing"]
    /\ \E end \in ConnEnds :
          conn_end' = IF KeepsConnEnd THEN [conn_end EXCEPT ![c] = end] ELSE conn_end
    /\ active_connections' = active_connections - 1
    /\ last_change' = clock
    /\ UNCHANGED <<exceptAccept, startVars, clock, select_wait, last_activity,
                   shutdown_rx, exit_path>>

\* the connection task: last_activity.store(start_time.elapsed().as_secs())
CnStoreActivity(c) ==
    /\ InAcceptLoop
    /\ conn[c] = "closing"
    /\ conn' = [conn EXCEPT ![c] = "gone"]
    /\ last_activity' = clock
    /\ UNCHANGED <<exceptAccept, startVars, clock, select_wait, active_connections,
                   shutdown_rx, exit_path, last_change, conn_end>>

\* Err(_): the accept timed out; exit when idle, otherwise select again
AcTimeout ==
    /\ InAcceptLoop
    /\ select_wait >= ACCEPT_TIMEOUT_SECS
    /\ IF IdleCheck(active_connections, SaturatingSub(clock, last_activity))
       THEN /\ AcReturn("idle")
            /\ UNCHANGED select_wait
       ELSE /\ select_wait' = 0
            /\ UNCHANGED <<startup, endpoint, pid_file, exit_path>>
    /\ UNCHANGED <<exceptAccept, starts, clock, last_activity, active_connections, conn,
                   shutdown_rx, last_change, conn_end>>

\* the shutdown request of a connected client sets the watch channel to true
RpcShutdown(c) ==
    /\ InAcceptLoop
    /\ conn[c] = "open"
    /\ ~shutdown_rx.value
    /\ shutdown_rx' = [value |-> TRUE, changed |-> TRUE]
    /\ UNCHANGED <<exceptAccept, startVars, clock, select_wait, last_activity,
                   active_connections, conn, exit_path, last_change, conn_end>>

\* _ = shutdown_rx.changed() => { if *shutdown_rx.borrow() { remove_endpoint;
\* return Ok(()) } continue }
AcShutdownBranch ==
    /\ InAcceptLoop
    /\ shutdown_rx.changed
    /\ shutdown_rx' = [shutdown_rx EXCEPT !.changed = FALSE]
    /\ IF ShutdownSeen(shutdown_rx.value)
       THEN /\ AcReturn("shutdown")
            /\ UNCHANGED select_wait
       ELSE /\ select_wait' = 0
            /\ UNCHANGED <<startup, endpoint, pid_file, exit_path>>
    /\ UNCHANGED <<exceptAccept, starts, clock, last_activity, active_connections, conn,
                   last_change, conn_end>>

(***************************************************************************)
(* daemon/mod.rs: the watcher's batch handler on paths, and the filters of *)
(* the rebuild task.  A path is a sequence of components; a component is   *)
(* its name cut at the substrings the code tests for.                      *)
(***************************************************************************)
NameEndsWith(name, suffix) == name # <<>> /\ name[Len(name)] = suffix
NameStartsWith(name, prefix) == name # <<>> /\ name[1] = prefix
NameContains(name, part) == \E i \in 1..Len(name) : name[i] = part

\* Path::starts_with: component-wise prefix
PathStartsWith(path, base) ==
    /\ Len(base) <= Len(path)
    /\ \A i \in 1..Len(base) : path[i] = base[i]

\* Path::parent: <<>> or <<the path without its last component>>
PathParent(path) == IF path = <<>> THEN <<>> ELSE <<SubSeq(path, 1, Len(path) - 1)>>

\* Path::strip_prefix(..).ok(): <<>> or <<the relative path>>
StripPrefix(path, base) ==
    IF PathStartsWith(path, base)
    THEN <<SubSeq(path, Len(base) + 1, Len(path))>>
    ELSE <<>>

ProjectRoot == << <<"repo">> >>
ConfigDir == ProjectRoot \o << <<".config">>, <<"tracey">> >>
ConfigPath == ConfigDir \o << <<"config", ".styx">> >>
GitignorePath == ProjectRoot \o << <<".gitignore">> >>
SrcDir == ProjectRoot \o << <<"src">> >>

\* the paths a batch may report
WatchedPaths ==
    { <<>>,                                               \* /
      ProjectRoot,
      ProjectRoot \o << <<".config">> >>,
      ConfigDir,
      ConfigPath,
      ConfigDir \o << <<".", "config", ".styx", ".tmp">> >>,  \* .config.styx.tmp
      ConfigDir \o << <<"notes", ".md">> >>,
      GitignorePath,
      ProjectRoot \o << <<".configx">> >>,
      SrcDir \o << <<"lib", ".rs">> >>,
      SrcDir \o << <<"lib", ".rs", "~">> >>,               \* lib.rs~
      SrcDir \o << <<"lib", ".rs", ".swp">> >>,            \* lib.rs.swp
      SrcDir \o << <<".#", "lib", ".rs">> >>,              \* .#lib.rs
      SrcDir \o << <<"a", ".tmp.", "123">> >>,             \* a.tmp.123
      SrcDir \o << <<"gen">>, <<"out", ".rs">> >>,
      ProjectRoot \o << <<"target">>, <<"out", ".rs">> >>,
      ProjectRoot \o << <<"README", ".md">> >>,
      ProjectRoot \o << <<"docs">>, <<"spec", ".md">> >>,
      << <<"elsewhere">>, <<"x", ".rs">> >> }

Batches == { b \in SUBSET WatchedPaths : Cardinality(b) <= MaxBatch }

\* is_temporary_edit_artifact
IsTemporaryEditArtifactNoLockFiles(path) ==
    \/ \E i \in 1..Len(path) : NameContains(path[i], ".tmp.")
    \/ /\ path # <<>>
       /\ LET name == path[Len(path)]
          IN  \/ NameEndsWith(name, ".tmp")
              \/ NameEndsWith(name, "~")
              \/ NameEndsWith(name, ".swp")
              \/ NameEndsWith(name, ".swo")
              \/ NameEndsWith(name, ".swx")

IsTemporaryEditArtifact(path) ==
    \/ \E i \in 1..Len(path) : NameContains(path[i], ".tmp.")
    \/ /\ path # <<>>
       /\ LET name == path[Len(path)]
          IN  \/ NameContains(name, ".tmp.")
              \/ NameEndsWith(name, ".tmp")
              \/ NameEndsWith(name, "~")
              \/ NameEndsWith(name, ".swp")
              \/ NameEndsWith(name, ".swo")
              \/ NameEndsWith(name, ".swx")
              \/ NameStartsWith(name, ".#")

\* path_triggers_reconfigure
PathTriggersReconfigureExact(path, config_path, gitignore_path) ==
    path = config_path \/ path = gitignore_path

PathTriggersReconfigure(path, config_path, gitignore_path) ==
    \/ path = config_path \/ path = gitignore_path
    \/ PathStartsWith(config_path, path) \/ PathStartsWith(gitignore_path, path)
    \/ /\ PathParent(config_path) # <<>>
       /\ PathStartsWith(path, PathParent(config_path)[1])

\* the watcher events sent for a batch of paths: none for an empty batch,
\* otherwise Reconfigure or FilesChanged(events)
WatcherEventsFor(paths) ==
    IF paths = {} THEN <<>>
    ELSE IF \E p \in paths : PathTriggersReconfigure(p, ConfigPath, GitignorePath)
         THEN <<[type |-> "Reconfigure", paths |-> {}]>>
         ELSE <<[type |-> "FilesChanged", paths |-> paths]>>

\* build_gitignore: the project's .gitignore (here: target/) and .git/
GitIgnored(rel) == rel # <<>> /\ rel[1] \in {<<"target">>, <<".git">>}

\* globset::Glob::new(pattern).compile_matcher().is_match(p), for the globs
\* of the configs below
GlobMatches(pattern, rel) ==
    CASE pattern = "src/**/*.rs" ->
           Len(rel) > 1 /\ rel[1] = <<"src">> /\ NameEndsWith(rel[Len(rel)], ".rs")
      [] pattern = "docs/**/*.md" ->
           Len(rel) > 1 /\ rel[1] = <<"docs">> /\ NameEndsWith(rel[Len(rel)], ".md")
      [] pattern = "src/gen/**" ->
           Len(rel) > 2 /\ rel[1] = <<"src">> /\ rel[2] = <<"gen">>
      [] OTHER -> FALSE

\* the config file as load_config finds it: the include globs of its specs
\* and impls and the exclude globs of its impls, or an Err
FullConfig ==
    [loads |-> TRUE, include |-> {"docs/**/*.md", "src/**/*.rs"}, exclude |-> {"src/gen/**"}]
WtConfigs ==
    { FullConfig,
      [loads |-> TRUE, include |-> {}, exclude |-> {"src/gen/**"}],
      [loads |-> FALSE, include |-> {}, exclude |-> {}] }

\* spec.source of the specs in engine_for_rebuild.data().await.config
EngineSpecSources == {"docs/**/*.md"}

\* include_patterns and exclude_patterns: from the config file if it loads,
\* otherwise the spec sources of the engine's data and no exclude pattern
IncludePatterns(config) == IF config.loads THEN config.include ELSE EngineSpecSources
ExcludePatterns(config) == IF config.loads THEN config.exclude ELSE {}

\* the filter with the include patterns consulted before the exclude patterns
PatternFilterIncludeFirst(rel, include_patterns, exclude_patterns) ==
    IF \E pattern \in include_patterns : GlobMatches(pattern, rel) THEN TRUE
    ELSE IF \E pattern \in exclude_patterns : GlobMatches(pattern, rel) THEN FALSE
    ELSE include_patterns = {}

\* the last filter: exclude patterns reject, then include patterns accept
\* (every path when there is none)
PatternFilter(rel, include_patterns, exclude_patterns) ==
    IF \E pattern \in exclude_patterns : GlobMatches(pattern, rel) THEN FALSE
    ELSE IF include_patterns = {} THEN TRUE
    ELSE \E pattern \in include_patterns : GlobMatches(pattern, rel)

\* relative_paths of the FilesChanged arm
RelativePaths(changed_files, include_patterns, exclude_patterns) ==
    { rel \in { StripPrefix(p, ProjectRoot)[1] :
                  p \in { q \in changed_files : StripPrefix(q, ProjectRoot) # <<>> } } :
        /\ ~IsTemporaryEditArtifact(rel)
        /\ ~GitIgnored(rel)
        /\ PatternFilter(rel, include_patterns, exclude_patterns) }

\* changed_abs
ChangedAbs(relative_paths) == { ProjectRoot \o rel : rel \in relative_paths }

\* the debouncer hands a batch to the handler, which sends with blocking_send
WtHandler(b) ==
    /\ program = "daemon watcher events"
    /\ wt_ch = <<>>
    /\ wt_batch' = b
    /\ wt_ch' = WatcherEventsFor(b)
    /\ wt_outcome' = None
    /\ wt_changed' = {}
    /\ UNCHANGED <<exceptWatch, wt_config>>

\* the rebuild task takes the event: a Reconfigure schedules a rebuild, a
\* FilesChanged only when a path survives the filters
WtRebuildTask(config) ==
    /\ program = "daemon watcher events"
    /\ wt_ch # <<>>
    /\ wt_ch' = Tail(wt_ch)
    /\ LET event == Head(wt_ch)
           relative_paths == RelativePaths(event.paths, IncludePatterns(config),
                                           ExcludePatterns(config))
       IN  IF event.type = "Reconfigure"
           THEN /\ wt_outcome' = "rebuild"
                /\ wt_changed' = {}
                /\ UNCHANGED wt_config
           ELSE /\ wt_config' = config
                /\ IF relative_paths = {}
                   THEN wt_outcome' = "skipped" /\ wt_changed' = {}
                   ELSE wt_outcome' = "rebuild" /\ wt_changed' = ChangedAbs(relative_paths)
    /\ UNCHANGED <<exceptWatch, wt_batch>>

(***************************************************************************)
(* daemon/mod.rs: the watcher thread's supervising loop, run_smart_watcher *)
(* and the Reconfigure arm of the rebuild task.  WatcherState and          *)
(* WatcherManager (daemon/watcher.rs) are modelled from their description. *)
(***************************************************************************)
\* tokio::time::sleep(Duration::from_secs(5)) after a failure
RESTART_DELAY_SECS == 5
\* tokio::time::sleep(Duration::from_secs(60)) of the reconfiguration loop
RECONFIGURE_POLL_SECS == 60
\* the granularity of time in the supervisor's sleeps
TickSecs == 5

\* include globs, as sequences of path components, each a sequence of pieces
\* of text in which a glob metacharacter is a piece of its own
GlobSrc == << <<"src">>, <<"*", "*">>, <<"*", ".rs">> >>
GlobCrates == << <<"crates">>, <<"*", "*">>, <<"*", ".rs">> >>
GlobNested == << <<"crates">>, <<"*">>, <<"src">>, <<"*", "*">>, <<"*", ".rs">> >>
GlobRoot == << <<"*", ".rs">> >>
GlobDocs == << <<"docs">>, <<"spec">>, <<"*", "*">>, <<"*", ".md">> >>

\* the components the globs are made of
GlobComponents ==
    { <<"src">>, <<"crates">>, <<"docs">>, <<"foo">>, <<"bar">>, <<"lib.rs">>,
      <<"*">>, <<"*", "*">>, <<"*", ".rs">>, <<"?", ".rs">>,
      <<"[", "abc", "]", ".rs">>, <<"{", "foo,bar", "}", ".rs">> }

\* the globs a config may hold
MaxGlobLen == 3
Globs ==
    UNION { [1..n -> GlobComponents] : n \in 1..MaxGlobLen } \cup {GlobNested, GlobDocs}

\* a component with no glob metacharacter; the variant knows the star only
IsLiteralButForStar(component) == \A i \in DOMAIN component : component[i] # "*"
IsLiteral(component) ==
    \A i \in DOMAIN component : component[i] \notin {"*", "?", "[", "{"}

\* Path::new(".")
CurDir == << <<".">> >>

\* the leading components of the glob that are literal
RECURSIVE LiteralPrefix(_)
LiteralPrefix(glob) ==
    IF glob = <<>> \/ ~IsLiteral(Head(glob)) THEN <<>>
    ELSE <<Head(glob)>> \o LiteralPrefix(Tail(glob))

\* glob_to_watch_dir: the longest literal prefix of the glob, or "."
GlobToWatchDir(glob) ==
    IF LiteralPrefix(glob) = <<>> THEN CurDir ELSE LiteralPrefix(glob)

\* the call of glob_to_watch_dir on its own
GwCall ==
    /\ program = "glob_to_watch_dir"
    /\ call_result = <<>>
    /\ call_result' = <<GlobToWatchDir(call_args)>>
    /\ UNCHANGED <<exceptCall, call_args>>

\* the contents the config file may have: it parses or not, and the include
\* globs of its impls
Configs ==
    { [ok |-> TRUE, includes |-> {GlobSrc}],
      [ok |-> TRUE, includes |-> {GlobSrc, GlobCrates}],
      [ok |-> TRUE, includes |-> {GlobSrc, GlobNested, GlobRoot}],
      [ok |-> FALSE, includes |-> {}] }

InitialConfig == [ok |-> TRUE, includes |-> {GlobSrc}]
UnparsableConfig == [ok |-> FALSE, includes |-> {}]

\* crate::load_config(..): <<>> for Err, <<config>> for Ok
LoadConfig(file) == IF file.ok THEN <<file>> ELSE <<>>

\* Config::default()
DefaultConfig == [ok |-> TRUE, includes |-> {}]

\* .unwrap_or_default()
UnwrapOrDefault(loaded) == IF loaded = <<>> THEN DefaultConfig ELSE loaded[1]

\* WatcherManager::reconfigure followed by watched_dirs()
WatchDirsOf(config) == { GlobToWatchDir(g) : g \in config.includes }

\* WatcherState::new, mark_active, mark_failed, set_watched_dirs
WatcherStateNew == [active |-> FALSE, error |-> <<>>, watched_dirs |-> {}]
MarkActive(state) == [state EXCEPT !.active = TRUE, !.error = <<>>]
MarkFailed(state, msg) == [state EXCEPT !.active = FALSE, !.error = <<msg>>]
SetWatchedDirs(state, dirs) == [state EXCEPT !.watched_dirs = dirs]

\* the watcher fields of the health response
HealthOf(state) ==
    [watcher_active |-> state.active, watcher_error |-> state.error,
     watched_directories |-> state.watched_dirs]

\* Err(e) => { error!(..); watcher_state_for_thread.mark_failed(error_msg); sleep }
SupOnErrorLogOnly(state, msg) == state
SupOnError(state, msg) == MarkFailed(state, msg)

\* if old_dirs != new_dirs
SupDirsChanged(old_dirs, new_dirs) == old_dirs # new_dirs

InSupervisor == program = "daemon watcher supervisor"

\* loop { watcher_state_for_thread.mark_active(); ... run_smart_watcher(..)
SupMarkActive ==
    /\ InSupervisor
    /\ sup_pc = "loop"
    /\ ws' = MarkActive(ws)
    /\ sup_pc' = "setup"
    /\ UNCHANGED <<exceptSup, sup_wait, wm_dirs, cfg_disk, sup_rebuild, sup_failures>>

\* run_smart_watcher up to its loop: load_config(..).unwrap_or_default(),
\* WatcherManager::new(..)?, reconfigure(&config)?, set_watched_dirs; an Err
\* goes back to the supervising loop, which records it and sleeps
SupSetup(ok) ==
    /\ InSupervisor
    /\ sup_pc = "setup"
    /\ sup_wait' = 0
    /\ IF ok
       THEN /\ wm_dirs' = WatchDirsOf(UnwrapOrDefault(LoadConfig(cfg_disk)))
            /\ ws' = SetWatchedDirs(ws, wm_dirs')
            /\ sup_pc' = "watching"
            /\ UNCHANGED sup_failures
       ELSE /\ sup_failures < MaxFailures
            /\ wm_dirs' = {}
            /\ ws' = SupOnError(ws, "backend failed")
            /\ sup_pc' = "sleeping"
            /\ sup_failures' = sup_failures + 1
    /\ UNCHANGED <<exceptSup, cfg_disk, sup_rebuild>>

\* time passes in one of the two sleeps
SupTick ==
    /\ InSupervisor
    /\ \/ sup_pc = "sleeping" /\ sup_wait < RESTART_DELAY_SECS
       \/ sup_pc = "watching" /\ sup_wait < RECONFIGURE_POLL_SECS
    /\ sup_wait' = sup_wait + TickSecs
    /\ UNCHANGED <<exceptSup, sup_pc, ws, wm_dirs, cfg_disk, sup_rebuild, sup_failures>>

\* the 5 s sleep is over and the loop starts again
SupRestart ==
    /\ InSupervisor
    /\ sup_pc = "sleeping"
    /\ sup_wait >= RESTART_DELAY_SECS
    /\ sup_pc' = "loop"
    /\ sup_wait' = 0
    /\ UNCHANGED <<exceptSup, ws, wm_dirs, cfg_disk, sup_rebuild, sup_failures>>

\* the 60 s sleep is over: if let Ok(new_config) = load_config(..) {
\* reconfigure; if old_dirs != new_dirs { set_watched_dirs(new_dirs) } }
SupPeriodic(ok) ==
    /\ InSupervisor
    /\ sup_pc = "watching"
    /\ sup_wait >= RECONFIGURE_POLL_SECS
    /\ sup_wait' = 0
    /\ LET loaded == LoadConfig(cfg_disk)
       IN  IF loaded # <<>> /\ ok
           THEN /\ wm_dirs' = WatchDirsOf(loaded[1])
                /\ ws' = IF SupDirsChanged(wm_dirs, wm_dirs')
                         THEN SetWatchedDirs(ws, wm_dirs')
                         ELSE ws
           ELSE UNCHANGED <<wm_dirs, ws>>
    /\ UNCHANGED <<exceptSup, sup_pc, cfg_disk, sup_rebuild, sup_failures>>

\* the config file is edited while it is watched; the batch handler sends
\* Reconfigure for it
SupEditConfig(file) ==
    /\ InSupervisor
    /\ sup_pc = "watching"
    /\ sup_rebuild \in {None, "done"}
    /\ file # cfg_disk
    /\ cfg_disk' = file
    /\ sup_rebuild' = "event"
    /\ UNCHANGED <<exceptSup, sup_pc, sup_wait, ws, wm_dirs, sup_failures>>

\* WatcherEvent::Reconfigure => { gitignore = build_gitignore(..);
\* engine_for_rebuild.schedule_rebuild_with_changes(&[]).await }
SupRebuildTaskReconfigure ==
    /\ InSupervisor
    /\ sup_rebuild = "event"
    /\ sup_rebuild' = "scheduled"
    /\ UNCHANGED <<exceptSup, sup_pc, sup_wait, ws, wm_dirs, cfg_disk, sup_failures>>

\* the engine's rebuild task completes the scheduled rebuild
SupEngineRebuild ==
    /\ InSupervisor
    /\ sup_rebuild = "scheduled"
    /\ sup_rebuild' = "done"
    /\ UNCHANGED <<exceptSup, sup_pc, sup_wait, ws, wm_dirs, cfg_disk, sup_failures>>

\* the rebuild task ends and drops watcher_rx: the receiving side of the
\* watcher channel is closed
SupReceiverDropped ==
    /\ InSupervisor
    /\ sup_rebuild \in {None, "done"}
    /\ sup_rebuild' = "closed"
    /\ UNCHANGED <<exceptSup, sup_pc, sup_wait, ws, wm_dirs, cfg_disk, sup_failures>>

\* the config file is edited after that: the batch handler's blocking_send
\* fails, which it logs ("Watcher channel closed") and nothing more
SupSendFails(file) ==
    /\ InSupervisor
    /\ sup_pc = "watching"
    /\ sup_rebuild = "closed"
    /\ file # cfg_disk
    /\ cfg_disk' = file
    /\ UNCHANGED <<exceptSup, sup_pc, sup_wait, ws, wm_dirs, sup_rebuild, sup_failures>>

(***************************************************************************)
(* bridge/lsp.rs: publication of the workspace diagnostics.  A path is a   *)
(* sequence of pieces of its bytes; the piece "<FF>" is a byte sequence    *)
(* that is not valid UTF-8, which a Unix path may hold and a String not.   *)
(***************************************************************************)
\* the project roots the bridge may be started in
ProjectRoots == { <<"/", "repo">>, <<"/", "caf", "<FF>">> }

\* FileDiagnostics.path of the daemon's answer: relative to the project root
DiagnosedFiles == { <<"src/a.rs">>, <<"src/b.rs">>, <<"docs/spec.md">> }

\* project_root.join(..)
PathJoin(base, path) ==
    IF path # <<>> /\ path[1] = "/" THEN path ELSE base \o <<"/">> \o path

\* Path::to_string_lossy().into_owned(): invalid sequences become U+FFFD
ToStringLossy(path) ==
    [i \in DOMAIN path |-> IF path[i] = "<FF>" THEN "U+FFFD" ELSE path[i]]

\* Url::from_file_path: <<>> for Err (the path is not absolute), otherwise
\* <<uri>> with the bytes percent-encoded
UrlFromFilePath(path) ==
    IF path = <<>> \/ path[1] # "/" THEN <<>>
    ELSE << [i \in DOMAIN path |->
               IF path[i] = "<FF>" THEN "%FF"
               ELSE IF path[i] = "U+FFFD" THEN "%EF%BF%BD"
               ELSE path[i]] >>

\* the URIs of the paths of a set for which Url::from_file_path is Ok
UrisOf(paths) == { UrlFromFilePath(p)[1] : p \in { q \in paths : UrlFromFilePath(q) # <<>> } }

\* project_root.join(".config/tracey/config.styx")
LspConfigPath(root) == PathJoin(root, <<".config/tracey/config.styx">>)

InBridge == program = "lsp diagnostics"

\* initialized: clear_workspace_diagnostics_on_startup sends [] for the config
\* file and for every file the walk of the project root finds
LspClearOnStartup ==
    /\ InBridge
    /\ lsp_pc = "initialized"
    /\ lsp_pc' = "ready"
    /\ files_with_diagnostics' = {}
    /\ LET walked == { PathJoin(project_root, f) : f \in DiagnosedFiles }
                        \cup {LspConfigPath(project_root)}
       IN  /\ lsp_cleared' = UrisOf(walked)
           /\ lsp_client' = lsp_client \ UrisOf(walked)
    /\ UNCHANGED <<exceptLsp, project_root, lsp_before, lsp_new>>

\* publish_workspace_diagnostics_with, for the answers of the daemon's health
\* and lsp_workspace_diagnostics calls
LspPublish(config_error, rpc_ok, all_diagnostics) ==
    /\ InBridge
    /\ lsp_pc = "ready"
    /\ IF ~rpc_ok
       THEN UNCHANGED <<files_with_diagnostics, lsp_client, lsp_cleared, lsp_before, lsp_new>>
       ELSE LET files_to_clear == files_with_diagnostics
                cleared == UrisOf(files_to_clear)
                config_uri == UrisOf({LspConfigPath(project_root)})
                abs_paths == { PathJoin(project_root, f) : f \in all_diagnostics }
                published == { p \in abs_paths : UrlFromFilePath(p) # <<>> }
                published_paths == { ToStringLossy(p) : p \in published }
            IN  /\ lsp_cleared' = cleared \cup (IF config_error THEN {} ELSE config_uri)
                /\ lsp_client' = ((lsp_client \ cleared) \ config_uri)
                                     \cup (IF config_error THEN config_uri ELSE {})
                                     \cup UrisOf(published)
                /\ files_with_diagnostics' = published_paths
                /\ lsp_before' = lsp_new
                /\ lsp_new' = published
    /\ UNCHANGED <<exceptLsp, project_root, lsp_pc>>

(***************************************************************************)
(* The engine's snapshot of rules, references and diagnostics, and         *)
(* validate.  The code is in daemon/engine.rs and tracey-core; it is       *)
(* modelled from its description and from the tests that exercise it.      *)
(***************************************************************************)
\* the configured specs and their inferred prefixes
DgSpecs == {"alpha", "beta"}
DgPrefix == [alpha |-> "r", beta |-> "shm"]

DgBases == {"auth.login", "payment.checkout"}

\* the rules a spec file may define
DgBasesOf == [alpha |-> {"auth.login", "payment.checkout"}, beta |-> {"payment.checkout"}]

\* a spec file defines each base at one version, or not at all
NoRule == 0
DefTables ==
    { defs \in [DgSpecs -> [DgBases -> 0..MaxVersion]] :
        \A spec \in DgSpecs : \A base \in DgBases \ DgBasesOf[spec] : defs[spec][base] = NoRule }

\* the +version suffix of a marker: <<>> when it is not written
Suffixes == {<<>>} \cup { <<n>> : n \in 2..MaxVersion }

\* the markers the sources may hold; x is the prefix of no spec
DgMarkers ==
    { m \in [prefix : {"r", "shm"}, verb : {"impl"}, base : DgBases, suffix : Suffixes] :
        \E spec \in DgSpecs : m.prefix = DgPrefix[spec] /\ m.base \in DgBasesOf[spec] }
      \cup { [prefix |-> "r", verb |-> "verify", base |-> "payment.checkout", suffix |-> <<>>],
             [prefix |-> "x", verb |-> "impl", base |-> "auth.login", suffix |-> <<>>] }

RefSets == { refs \in SUBSET DgMarkers : Cardinality(refs) <= MaxRefs }

\* RuleId: the version of a marker, 1 when no suffix is written
MarkerVersion(marker) == IF marker.suffix = <<>> THEN 1 ELSE marker.suffix[1]

SpecsWithPrefix(prefix) == { spec \in DgSpecs : DgPrefix[spec] = prefix }

\* prefix filtering: the markers a spec sees
MarkerInScopeOfAll(marker, spec) == TRUE
MarkerInScope(marker, spec) == marker.prefix = DgPrefix[spec]

\* the spec defines a later version than the reference names
NewerOrSame(defined, referenced) == defined >= referenced
NewerThan(defined, referenced) == defined > referenced

\* a reference resolves to the definition with its base, whatever the version
ResolvesAtSameVersion(defs, spec, marker) == defs[spec][marker.base] = MarkerVersion(marker)
Resolves(defs, spec, marker) == defs[spec][marker.base] # NoRule

Diagnostic(code, severity, marker) ==
    [code |-> code, severity |-> severity, marker |-> marker]

\* the diagnostics of one marker
DiagnosticsOf(defs, marker) ==
    LET specs == { spec \in DgSpecs : MarkerInScope(marker, spec) }
    IN  IF SpecsWithPrefix(marker.prefix) = {}
        THEN {Diagnostic("unknown-prefix", "error", marker)}
        ELSE IF \A spec \in specs : ~Resolves(defs, spec, marker)
        THEN {Diagnostic("orphaned", "error", marker)}
        ELSE IF \E spec \in specs :
                  /\ defs[spec][marker.base] # NoRule
                  /\ NewerThan(defs[spec][marker.base], MarkerVersion(marker))
        THEN {Diagnostic("stale", "warning", marker)}
        ELSE {}

WorkspaceDiagnostics(defs, refs) == UNION { DiagnosticsOf(defs, marker) : marker \in refs }

\* forward_by_impl: per spec and rule, the references to it
ForwardByImpl(defs, refs) ==
    [spec \in DgSpecs |->
       [base \in DgBases |->
          LET to_rule == { m \in refs : MarkerInScope(m, spec) /\ m.base = base }
          IN  [defined |-> defs[spec][base] # NoRule,
               impl_refs |-> IF defs[spec][base] = NoRule THEN {}
                             ELSE { m \in to_rule : m.verb = "impl" },
               verify_refs |-> IF defs[spec][base] = NoRule THEN {}
                               ELSE { m \in to_rule : m.verb = "verify" }]]]

\* the snapshot a build publishes
BuildSnapshot(defs, refs) ==
    [defs |-> defs, refs |-> refs,
     workspace_diagnostics |-> WorkspaceDiagnostics(defs, refs),
     forward_by_impl |-> ForwardByImpl(defs, refs)]

\* validate(spec): the diagnostics of the snapshot scoped to the spec
Validate(snapshot, spec) ==
    { d \in snapshot.workspace_diagnostics : MarkerInScope(d.marker, spec) }

InDiagnostics == program = "engine diagnostics"

\* the snapshot is older than the files
DgDirty == dg_snapshot.defs # dg_defs \/ dg_snapshot.refs # dg_refs

\* a spec file is edited: a rule is added, removed or given another version
DgSetRule(spec, base, version) ==
    /\ InDiagnostics
    /\ ~DgDirty
    /\ dg_defs[spec][base] # version
    /\ dg_defs' = [dg_defs EXCEPT ![spec][base] = version]
    /\ dg_last' = [kind |-> "rule", what |-> spec]
    /\ UNCHANGED <<exceptDg, dg_refs, dg_snapshot>>

\* a source file is edited: a marker is added
DgAddMarker(marker) ==
    /\ InDiagnostics
    /\ ~DgDirty
    /\ marker \notin dg_refs
    /\ Cardinality(dg_refs) < MaxRefs
    /\ dg_refs' = dg_refs \cup {marker}
    /\ dg_last' = [kind |-> "marker", what |-> marker.prefix]
    /\ UNCHANGED <<exceptDg, dg_defs, dg_snapshot>>

\* a source file is edited: a marker is removed
DgRemoveMarker(marker) ==
    /\ InDiagnostics
    /\ ~DgDirty
    /\ marker \in dg_refs
    /\ dg_refs' = dg_refs \ {marker}
    /\ dg_last' = [kind |-> "marker", what |-> marker.prefix]
    /\ UNCHANGED <<exceptDg, dg_defs, dg_snapshot>>

\* Engine::rebuild_with_changes publishes the snapshot of the edited files
DgRebuild ==
    /\ InDiagnostics
    /\ DgDirty
    /\ dg_snapshot' = BuildSnapshot(dg_defs, dg_refs)
    /\ UNCHANGED <<exceptDg, dg_defs, dg_refs, dg_last>>

(***************************************************************************)
(* Specification.                                                          *)
(***************************************************************************)
ServeIdle ==
    /\ sv_version = INITIAL_VERSION
    /\ sv_data = None
    /\ debounce_ch = 0
    /\ sv_rb = SvIdle
    /\ sv_running = 0
    /\ sv_reader = ReaderIdle
    /\ sv_published = {}
    /\ sv_last = None

DaemonIdle ==
    /\ watcher_ch = <<>>
    /\ caller = [p \in Callers |-> "idle"]
    /\ eng_rb = [p \in Callers |-> EngNoRebuild]
    /\ eng_in_progress = FALSE
    /\ eng_dirty = FALSE
    /\ eng_sub = [open |-> FALSE, slot |-> <<>>]
    /\ bridge = [pc |-> "subscribe", last_version |-> <<>>, processed |-> <<>>, outcome |-> None]
    /\ rpc_resp = <<>>
    /\ calls = 0
    /\ eng_data = EngUnbuilt
    /\ eng_versions = {}

StartupIdle ==
    /\ startup = [d \in Daemons |-> StartupOff]
    /\ endpoint = NoEndpoint
    /\ pid_file = <<>>
    /\ starts = 0

\* serve::run: the config must load and the first build must succeed
InitServe ==
    /\ program = "serve"
    /\ \E t \in Trees : disk = [tree |-> t, config |-> "valid"]
    /\ edits = 0
    /\ fs_events = {}
    /\ sv_version = INITIAL_VERSION
    /\ sv_data = BuildDashboardData(disk.tree, disk.config, INITIAL_VERSION)
    /\ debounce_ch = 0
    /\ sv_rb = SvIdle
    /\ sv_running = 0
    /\ sv_reader = ReaderIdle
    /\ sv_published = {sv_data}
    /\ sv_last = None
    /\ DaemonIdle

\* daemon::run, about to call Engine::new: whatever the config file is
InitDaemon ==
    /\ program \in {"daemon+cli", "daemon+lsp"}
    /\ \E t \in Trees, c \in ConfigFiles : disk = [tree |-> t, config |-> c]
    /\ edits = 0
    /\ fs_events = {}
    /\ ServeIdle
    /\ DaemonIdle

AcceptIdle ==
    /\ clock = 0
    /\ select_wait = 0
    /\ last_activity = 0
    /\ active_connections = 0
    /\ conn = [c \in Conns |-> "unconnected"]
    /\ shutdown_rx = [value |-> FALSE, changed |-> FALSE]
    /\ exit_path = None
    /\ last_change = 0
    /\ conn_end = <<>>

WatchIdle ==
    /\ wt_batch = {}
    /\ wt_ch = <<>>
    /\ wt_outcome = None
    /\ wt_changed = {}
    /\ wt_config = FullConfig

SupIdle ==
    /\ sup_pc = "off"
    /\ sup_wait = 0
    /\ ws = WatcherStateNew
    /\ wm_dirs = {}
    /\ cfg_disk = InitialConfig
    /\ sup_rebuild = None
    /\ sup_failures = 0

LspIdle ==
    /\ lsp_pc = "off"
    /\ project_root = <<"/", "repo">>
    /\ files_with_diagnostics = {}
    /\ lsp_client = {}
    /\ lsp_cleared = {}
    /\ lsp_before = {}
    /\ lsp_new = {}

NoEdit == [kind |-> "none", what |-> "none"]

DgIdle ==
    /\ dg_defs = [spec \in DgSpecs |-> [base \in DgBases |-> NoRule]]
    /\ dg_refs = {}
    /\ dg_snapshot = BuildSnapshot(dg_defs, dg_refs)
    /\ dg_last = NoEdit

CallIdle ==
    /\ call_args = <<>>
    /\ call_result = <<>>

\* RootRefreshState::default()
RootRefreshStateDefault ==
    [last_selected_root |-> <<>>, last_refresh_error |-> <<>>,
     last_tool_cwd |-> <<>>, last_tool_cwd_error |-> <<>>]

TaskIdle ==
    /\ task_pc = <<>>
    /\ task_cwd = <<>>
    /\ task_client = <<>>
    /\ task_roots = <<>>
    /\ active_lock = None
    /\ state_lock = None
    /\ doc_lock = None
    /\ lsp_at = <<>>

McpIdle ==
    /\ active_project_root = <<>>
    /\ root_refresh_state = RootRefreshStateDefault
    /\ mcp_call = <<>>
    /\ mcp_sent = {}
    /\ mcp_response = <<>>
    /\ TaskIdle

VfsIdle ==
    /\ documents = <<>>
    /\ vfs_overlay = <<>>
    /\ vfs_disk = <<>>
    /\ vfs_read = <<>>
    /\ vfs_last = <<>>
    /\ vfs_sent = <<>>

ExtraIdle == CallIdle /\ McpIdle /\ VfsIdle

\* every part but the call is idle
AllButCallIdle ==
    /\ AcceptIdle /\ WatchIdle /\ SupIdle /\ LspIdle /\ DgIdle /\ McpIdle /\ VfsIdle

RestIdle == AcceptIdle /\ WatchIdle /\ SupIdle /\ LspIdle /\ DgIdle /\ ExtraIdle

\* the parts of the state a program does not use
EnvIdle ==
    /\ disk = [tree |-> NoTree, config |-> "valid"]
    /\ edits = 0
    /\ fs_events = {}

Init == (InitServe \/ InitDaemon) /\ StartupIdle /\ RestIdle

\* no daemon process runs; a killed one may have left its endpoint behind
InitStartup ==
    /\ program = "daemon start-up"
    /\ disk = [tree |-> NoTree, config |-> "valid"]
    /\ edits = 0
    /\ fs_events = {}
    /\ ServeIdle
    /\ DaemonIdle
    /\ startup = [d \in Daemons |-> StartupOff]
    /\ endpoint \in {NoEndpoint, [file |-> TRUE, owner |-> None]}
    /\ pid_file = <<>>
    /\ starts = 0
    /\ RestIdle

NextStartup ==
    \E d \in Daemons :
        \/ DmInvoke(d)
        \/ DmPidFileCreate(d)
        \/ DmEndpointExists(d)
        \/ DmConnect(d)
        \/ DmRemoveStale(d)
        \/ DmCreateEngine(d)
        \/ DmBind(d)
        \/ DmExit(d)
        \/ DmKilled(d)

SpecStartup == InitStartup /\ [][NextStartup]_vars

\* the daemon has bound its listener and enters the accept loop
InitAccept ==
    /\ program = "daemon accept loop"
    /\ disk = [tree |-> NoTree, config |-> "valid"]
    /\ edits = 0
    /\ fs_events = {}
    /\ ServeIdle
    /\ DaemonIdle
    /\ startup = [d \in Daemons |->
                    IF d = Acceptor
                    THEN [StartupOff EXCEPT !.pc = "accept", !.engine = TRUE,
                                            !.listener = TRUE, !.saw = "absent"]
                    ELSE StartupOff]
    /\ endpoint = [file |-> TRUE, owner |-> Acceptor]
    /\ pid_file = <<Acceptor>>
    /\ starts = 1
    /\ AcceptIdle
    /\ WatchIdle
    /\ SupIdle
    /\ LspIdle
    /\ DgIdle
    /\ ExtraIdle

\* the daemon serves; the connections it is offered are followed
InitConnections ==
    /\ program = "daemon connections"
    /\ disk = [tree |-> NoTree, config |-> "valid"]
    /\ edits = 0
    /\ fs_events = {}
    /\ ServeIdle
    /\ DaemonIdle
    /\ startup = [d \in Daemons |->
                    IF d = Acceptor
                    THEN [StartupOff EXCEPT !.pc = "accept", !.engine = TRUE,
                                            !.listener = TRUE, !.saw = "absent"]
                    ELSE StartupOff]
    /\ endpoint = [file |-> TRUE, owner |-> Acceptor]
    /\ pid_file = <<Acceptor>>
    /\ starts = 1
    /\ clock = 0
    /\ select_wait = 0
    /\ last_activity = 0
    /\ active_connections = 0
    /\ conn = [c \in Conns |-> "unconnected"]
    /\ shutdown_rx = [value |-> FALSE, changed |-> FALSE]
    /\ exit_path = None
    /\ last_change = 0
    /\ conn_end = [c \in Conns |-> None]
    /\ WatchIdle
    /\ SupIdle
    /\ LspIdle
    /\ DgIdle
    /\ ExtraIdle

NextConnections ==
    \/ \E c \in Conns : ClConnect(c)
    \/ \E c \in Conns : AcAccept(c)
    \/ \E c \in Conns : AcAcceptFails(c)
    \/ \E c \in Conns : CnDriverEnds(c)
    \/ \E c \in Conns : CnStoreActivity(c)

SpecConnections == InitConnections /\ [][NextConnections]_vars

NextAccept ==
    \/ AcTick
    \/ \E c \in Conns : ClConnect(c)
    \/ \E c \in Conns : AcAccept(c)
    \/ \E c \in Conns : AcAcceptFails(c)
    \/ \E c \in Conns : CnDriverEnds(c)
    \/ \E c \in Conns : CnStoreActivity(c)
    \/ AcTimeout
    \/ \E c \in Conns : RpcShutdown(c)
    \/ AcShutdownBranch

SpecAccept == InitAccept /\ [][NextAccept]_vars

\* the watcher thread and the rebuild task of a running daemon
InitWatch ==
    /\ program = "daemon watcher events"
    /\ EnvIdle /\ ServeIdle /\ DaemonIdle /\ StartupIdle /\ RestIdle

NextWatch ==
    \/ \E b \in Batches : WtHandler(b)
    \/ \E config \in WtConfigs : WtRebuildTask(config)

SpecWatch == InitWatch /\ [][NextWatch]_vars

\* the watcher thread from its spawn, the config file and the rebuild task
InitSupervisor ==
    /\ program = "daemon watcher supervisor"
    /\ EnvIdle /\ ServeIdle /\ DaemonIdle /\ StartupIdle /\ AcceptIdle /\ WatchIdle
    /\ LspIdle /\ DgIdle /\ ExtraIdle
    /\ sup_pc = "loop"
    /\ sup_wait = 0
    /\ ws = WatcherStateNew
    /\ wm_dirs = {}
    /\ cfg_disk \in {InitialConfig, UnparsableConfig}
    /\ sup_rebuild = None
    /\ sup_failures = 0

NextSupervisor ==
    \/ SupMarkActive
    \/ \E ok \in BOOLEAN : SupSetup(ok)
    \/ SupTick
    \/ SupRestart
    \/ \E ok \in BOOLEAN : SupPeriodic(ok)
    \/ \E file \in Configs : SupEditConfig(file)
    \/ SupRebuildTaskReconfigure
    \/ SupEngineRebuild
    \/ SupReceiverDropped
    \/ \E file \in Configs : SupSendFails(file)

SpecSupervisor == InitSupervisor /\ [][NextSupervisor]_vars

\* the watcher thread runs on its own OS thread and its sleeps end
LiveSpecSupervisor ==
    /\ SpecSupervisor
    /\ WF_vars(SupMarkActive)
    /\ WF_vars(SupTick)
    /\ WF_vars(SupRestart)

\* the LSP bridge from the client's initialized notification
InitLsp ==
    /\ program = "lsp diagnostics"
    /\ EnvIdle /\ ServeIdle /\ DaemonIdle /\ StartupIdle /\ AcceptIdle /\ WatchIdle /\ SupIdle
    /\ DgIdle /\ ExtraIdle
    /\ lsp_pc = "initialized"
    /\ project_root \in ProjectRoots
    /\ files_with_diagnostics = {}
    /\ lsp_client = {}
    /\ lsp_cleared = {}
    /\ lsp_before = {}
    /\ lsp_new = {}

NextLsp ==
    \/ LspClearOnStartup
    \/ \E config_error, rpc_ok \in BOOLEAN : \E all_diagnostics \in SUBSET DiagnosedFiles :
          LspPublish(config_error, rpc_ok, all_diagnostics)

SpecLsp == InitLsp /\ [][NextLsp]_vars

(***************************************************************************)
(* tracey-core/positions.rs, with usize scaled down to UsizeBits bits.      *)
(***************************************************************************)
UsizeBits == 4
UsizeMax == 2^UsizeBits - 1
Usize == 0..UsizeMax

\* checked_add, checked_sub: <<>> is None
CheckedAdd(a, b) == IF a + b > UsizeMax THEN <<>> ELSE <<a + b>>
CheckedSub(a, b) == IF a < b THEN <<>> ELSE <<a - b>>
\* saturating_add
SaturatingAdd(a, b) == IF a + b > UsizeMax THEN UsizeMax ELSE a + b
\* a + b: an overflow panics in a build with overflow checks and wraps in one
\* without
PlainAdd(a, b, build) ==
    IF a + b > UsizeMax /\ build = "debug" THEN <<>> ELSE <<(a + b) % (UsizeMax + 1)>>

Builds == {"debug", "release"}

\* what a call does: it panics or returns a value
Panics == [panic |-> TRUE]
Returns(v) == [panic |-> FALSE, value |-> v]
\* .expect(..)
Expect(option) == IF option = <<>> THEN Panics ELSE Returns(option[1])

\* LineNumber::from_zero_based
FromZeroBased(index, build) == Expect(PlainAdd(index, 1, build))

\* LineNumber::from_one_based; its debug_assert is compiled in debug builds
FromOneBased(index, build) ==
    IF build = "debug" /\ ~(index > 0) THEN Panics ELSE Returns(index)

\* LineNumber::is_immediately_after
IsImmediatelyAfter(self, previous) == Returns(self = SaturatingAdd(previous, 1))

\* ByteOffset::add
ByteOffsetAdd(self, amount) == Expect(CheckedAdd(self, amount))

\* ByteLength::from_inclusive_bounds
FromInclusiveBounds(start, end_inclusive) ==
    LET delta == CheckedSub(end_inclusive, start)
    IN  Expect(IF delta = <<>> THEN <<>> ELSE CheckedAdd(delta[1], 1))

\* the calls: from_one_based is called with the insertion point of an offset
\* that is not a line start, which is never 0
PositionCalls ==
    [fn : {"ByteOffset::add", "from_inclusive_bounds", "is_immediately_after"},
     a : Usize, b : Usize, build : Builds]
    \cup [fn : {"from_zero_based"}, a : Usize, b : {0}, build : Builds]
    \cup [fn : {"from_one_based"}, a : Usize \ {0}, b : {0}, build : Builds]

PosCall(fn, result) ==
    /\ program = "positions"
    /\ call_result = <<>>
    /\ call_args.fn = fn
    /\ call_result' = <<result>>
    /\ UNCHANGED <<exceptCall, call_args>>

PosByteOffsetAdd == PosCall("ByteOffset::add", ByteOffsetAdd(call_args.a, call_args.b))
PosFromInclusiveBounds ==
    PosCall("from_inclusive_bounds", FromInclusiveBounds(call_args.a, call_args.b))
PosFromZeroBased == PosCall("from_zero_based", FromZeroBased(call_args.a, call_args.build))
PosFromOneBased == PosCall("from_one_based", FromOneBased(call_args.a, call_args.build))
PosIsImmediatelyAfter ==
    PosCall("is_immediately_after", IsImmediatelyAfter(call_args.a, call_args.b))

\* a function of positions.rs is about to be called
InitPositions ==
    /\ program = "positions"
    /\ EnvIdle /\ ServeIdle /\ DaemonIdle /\ StartupIdle /\ AllButCallIdle
    /\ call_args \in PositionCalls
    /\ call_result = <<>>

NextPositions ==
    \/ PosByteOffsetAdd
    \/ PosFromInclusiveBounds
    \/ PosFromZeroBased
    \/ PosFromOneBased
    \/ PosIsImmediatelyAfter

SpecPositions == InitPositions /\ [][NextPositions]_vars

(***************************************************************************)
(* tracey-core/markdown.rs.  A text is a sequence of bytes, each a string   *)
(* of one character; indices are 1-based here and 0-based in the code.      *)
(***************************************************************************)
MaxLines == 4

\* the byte 0x60 (grave accent), which opens fences and code spans
Tick == "tick"

\* the lines a Markdown text is made of: a marker as plain text, a marker
\* indented by four more spaces, a code fence, a marker in an inline code
\* span, a marker in a blockquote, an empty line
MdKinds == {"marker", "indented", "fence", "span", "quote", "blank"}
MdContent(kind) ==
    CASE kind = "marker" -> <<"m">>
      [] kind = "indented" -> <<" ", " ", " ", " ", "m">>
      [] kind = "fence" -> <<Tick, Tick, Tick>>
      [] kind = "span" -> <<Tick, "m", Tick>>
      [] kind = "quote" -> <<">", "m">>
      [] OTHER -> <<>>

\* the indentation of the whole text
MdIndents == {0, 4}

Spaces(n) == [i \in 1..n |-> " "]
MdLineBytes(indent, kind) ==
    (IF kind = "blank" THEN <<>> ELSE Spaces(indent) \o MdContent(kind)) \o <<"\n">>

RECURSIVE MdText(_, _)
MdText(indent, kinds) ==
    IF kinds = <<>> THEN <<>>
    ELSE MdLineBytes(indent, Head(kinds)) \o MdText(indent, Tail(kinds))

MdTexts == [indent : MdIndents, kinds : UNION { [1..n -> MdKinds] : n \in 1..MaxLines }]

\* text.split_inclusive('\n')
RECURSIVE SplitInclusive(_)
SplitInclusive(text) ==
    IF text = <<>> THEN <<>>
    ELSE LET k == CHOOSE k \in 1..Len(text) :
                    /\ text[k] = "\n" \/ k = Len(text)
                    /\ \A j \in 1..(k - 1) : text[j] # "\n"
         IN  <<SubSeq(text, 1, k)>> \o SplitInclusive(SubSeq(text, k + 1, Len(text)))

\* .bytes().take_while(|b| matches!(b, b' ' | b'\t')).count()
LeadingWhitespace(bytes) ==
    CHOOSE n \in 0..Len(bytes) :
        /\ \A i \in 1..n : bytes[i] \in {" ", "\t"}
        /\ n = Len(bytes) \/ bytes[n + 1] \notin {" ", "\t"}

\* line.strip_suffix('\n').unwrap_or(line)
StripNewline(line) ==
    IF line # <<>> /\ line[Len(line)] = "\n" THEN SubSeq(line, 1, Len(line) - 1) ELSE line

\* content.trim().is_empty()
TrimIsEmpty(content) == \A i \in DOMAIN content : content[i] \in {" ", "\t", "\n", "\r"}

\* min_indent of dedent_with_index_map; the variant never dedents
MinIndentZero(lines) == 0
MinIndent(lines) ==
    LET indents == { LeadingWhitespace(StripNewline(lines[i])) :
                       i \in { j \in DOMAIN lines : ~TrimIsEmpty(StripNewline(lines[j])) } }
    IN  IF indents = {} THEN 0
        ELSE CHOOSE n \in indents : \A k \in indents : n <= k

\* the loop of dedent_with_index_map over the lines
RECURSIVE DedentLoop(_, _, _)
DedentLoop(lines, min_indent, base_offset) ==
    IF lines = <<>> THEN [normalized |-> <<>>, index_map |-> <<>>]
    ELSE LET line == Head(lines)
             remove == IF LeadingWhitespace(line) < min_indent
                       THEN LeadingWhitespace(line) ELSE min_indent
             rest == DedentLoop(Tail(lines), min_indent, base_offset + Len(line))
         IN  [normalized |-> SubSeq(line, remove + 1, Len(line)) \o rest.normalized,
              index_map |-> [i \in 1..(Len(line) - remove) |-> base_offset + remove + i]
                            \o rest.index_map]

\* dedent_with_index_map
DedentWithIndexMap(text) ==
    DedentLoop(SplitInclusive(text), MinIndent(SplitInclusive(text)), 0)

\* ---- pulldown_cmark's offset iterator, for texts made of the lines above
\* a code fence: at most three spaces, then three backticks
IsFenceLine(line) ==
    /\ LeadingWhitespace(line) <= 3
    /\ SubSeq(StripNewline(line), LeadingWhitespace(line) + 1, Len(StripNewline(line)))
           = <<Tick, Tick, Tick>>

\* the first and last byte of an inline code span of the line, or <<>>
CodeSpanOf(line) ==
    LET ticks == { i \in DOMAIN line :
                     /\ line[i] = Tick
                     /\ i = 1 \/ line[i - 1] # Tick
                     /\ i = Len(line) \/ line[i + 1] # Tick }
    IN  IF Cardinality(ticks) < 2 THEN <<>>
        ELSE LET a == CHOOSE i \in ticks : \A j \in ticks : i <= j
                 b == CHOOSE i \in ticks \ {a} : \A j \in ticks \ {a} : i <= j
             IN  <<a, b>>

\* the sum of the lengths of the lines before line i
RECURSIVE LineStart(_, _)
LineStart(lines, i) == IF i = 1 THEN 0 ELSE LineStart(lines, i - 1) + Len(lines[i - 1])

\* the closing fence of the block opened at line i, or the last line
FenceEnd(lines, i) ==
    IF \E j \in (i + 1)..Len(lines) : IsFenceLine(lines[j])
    THEN CHOOSE j \in (i + 1)..Len(lines) :
             IsFenceLine(lines[j]) /\ \A k \in (i + 1)..(j - 1) : ~IsFenceLine(lines[k])
    ELSE Len(lines)

Event(event, from, to) == [event |-> event, from |-> from, to |-> to]

\* the events from line i on; in_paragraph: the line before belongs to a
\* paragraph, which an indented line continues
RECURSIVE ParserEvents(_, _, _)
ParserEvents(lines, i, in_paragraph) ==
    IF i > Len(lines) THEN <<>>
    ELSE LET line == lines[i]
             start == LineStart(lines, i)
         IN  IF TrimIsEmpty(line) THEN ParserEvents(lines, i + 1, FALSE)
             ELSE IF IsFenceLine(line)
             THEN LET end == FenceEnd(lines, i)
                      from == start + LeadingWhitespace(line) + 1
                      to == LineStart(lines, end) + Len(lines[end])
                      content == IF IsFenceLine(lines[end]) /\ end > i
                                 THEN (i + 1)..(end - 1) ELSE (i + 1)..end
                  IN  <<Event("StartFenced", from, to)>>
                      \o (IF content = {} THEN <<>>
                          ELSE <<Event("Text", LineStart(lines, i + 1) + 1,
                                       LineStart(lines, i + 1 + Cardinality(content)))>>)
                      \o <<Event("EndCodeBlock", from, to)>>
                      \o ParserEvents(lines, end + 1, FALSE)
             ELSE IF LeadingWhitespace(line) >= 4 /\ ~in_paragraph
             THEN <<Event("StartIndented", start + 5, start + Len(line)),
                    Event("Text", start + 5, start + Len(line)),
                    Event("EndCodeBlock", start + 5, start + Len(line))>>
                  \o ParserEvents(lines, i + 1, FALSE)
             ELSE (IF CodeSpanOf(line) = <<>>
                   THEN <<Event("Text", start + 1, start + Len(line))>>
                   ELSE <<Event("Code", start + CodeSpanOf(line)[1],
                                start + CodeSpanOf(line)[2])>>)
                  \o ParserEvents(lines, i + 1, TRUE)

\* Parser::new_ext(&normalized, Options::all()).into_offset_iter()
IntoOffsetIter(normalized) == ParserEvents(SplitInclusive(normalized), 1, FALSE)

\* the loop of markdown_code_mask over the events
RECURSIVE MaskLoop(_, _, _, _)
MaskLoop(events, in_fenced_code_block, mask, index_map) ==
    IF events = <<>> THEN mask
    ELSE LET e == Head(events)
             should_mark ==
                 CASE e.event = "Code" -> TRUE
                   [] e.event = "StartFenced" -> TRUE
                   [] e.event = "StartIndented" -> FALSE
                   [] e.event = "EndCodeBlock" -> in_fenced_code_block
                   [] OTHER -> in_fenced_code_block
             in_fenced ==
                 CASE e.event = "StartFenced" -> TRUE
                   [] e.event = "EndCodeBlock" -> FALSE
                   [] OTHER -> in_fenced_code_block
             marked == IF should_mark
                       THEN { index_map[n] : n \in (e.from..e.to) \cap DOMAIN index_map }
                       ELSE {}
         IN  MaskLoop(Tail(events), in_fenced,
                      [k \in DOMAIN mask |-> mask[k] \/ k \in marked], index_map)

\* markdown_code_mask
MarkdownCodeMask(text) ==
    LET dedent == DedentWithIndexMap(text)
    IN  MaskLoop(IntoOffsetIter(dedent.normalized), FALSE,
                 [k \in 1..Len(text) |-> FALSE], dedent.index_map)

\* is_code_index
IsCodeIndex(index, code_mask) == index \in DOMAIN code_mask /\ code_mask[index]

\* the references the marker scan finds in a Markdown text: the markers
\* outside the mask
MdReferences(text) ==
    { i \in DOMAIN text : text[i] = "m" /\ ~IsCodeIndex(i, MarkdownCodeMask(text)) }

\* the call of markdown_code_mask on its own
MdCall ==
    /\ program = "markdown_code_mask"
    /\ call_result = <<>>
    /\ call_result' = <<MarkdownCodeMask(MdText(call_args.indent, call_args.kinds))>>
    /\ UNCHANGED <<exceptCall, call_args>>

\* markdown_code_mask is about to be called on a text
InitMarkdown ==
    /\ program = "markdown_code_mask"
    /\ EnvIdle /\ ServeIdle /\ DaemonIdle /\ StartupIdle /\ AllButCallIdle
    /\ call_args \in MdTexts
    /\ call_result = <<>>

NextMarkdown == MdCall

SpecMarkdown == InitMarkdown /\ [][NextMarkdown]_vars

(***************************************************************************)
(* bridge/lsp.rs: renaming.  A text is a sequence of pieces; a rule id, a   *)
(* verb and each punctuation mark is a piece, and offsets count pieces.     *)
(***************************************************************************)
MaxMarkers == 2

RnBases == {"auth.login", "auth.signin"}
RnSuffixes == { <<>>, <<"+", "1">>, <<"+", "2">> }
RnVerbs == {"define", "impl"}

\* the markers of a file, and the file paths
RnMarkers == [verb : RnVerbs, base : RnBases, suffix : RnSuffixes]
RnContents == UNION { [1..n -> RnMarkers] : n \in 0..MaxMarkers }
RnPaths == {"src/lib.rs", "notes.txt"}

\* r[impl auth.login+2]; a definition has no verb
MarkerText(marker) ==
    <<"r[">> \o (IF marker.verb = "define" THEN <<>> ELSE <<marker.verb, " ">>)
    \o <<marker.base>> \o marker.suffix \o <<"]">>

\* the text of a file: a marker on each line
RECURSIVE FileText(_)
FileText(markers) ==
    IF markers = <<>> THEN <<>>
    ELSE MarkerText(Head(markers)) \o <<"\n">> \o FileText(Tail(markers))

\* the rule strings a client may send: BASE(+VERSION)?, or something else
RuleStrings == { <<base>> \o suffix : base \in RnBases, suffix \in RnSuffixes } \cup { <<"?">> }

\* parse_rule_id: <<>> is None; the version defaults to 1
ParseRuleId(rule) ==
    IF rule = <<>> \/ rule[1] \notin RnBases THEN <<>>
    ELSE <<[base |-> rule[1],
            version |-> IF Len(rule) = 1 THEN 1 ELSE IF rule[3] = "1" THEN 1 ELSE 2]>>

\* RuleId's Display: base for version 1, base+N otherwise
RuleIdToString(id) ==
    IF id.version = 1 THEN <<id.base>> ELSE <<id.base, "+", IF id.version = 2 THEN "2" ELSE "1">>

\* Reqs::extract_from_content(..).references: verb, rule id and span of each
\* marker; offsets are 0-based
RECURSIVE ExtractFromContent(_, _)
ExtractFromContent(markers, offset) ==
    IF markers = <<>> THEN <<>>
    ELSE LET marker == Head(markers)
         IN  <<[verb |-> marker.verb,
                req_id |-> ParseRuleId(<<marker.base>> \o marker.suffix)[1],
                span |-> [offset |-> offset, length |-> Len(MarkerText(marker))]]>>
             \o ExtractFromContent(Tail(markers), offset + Len(MarkerText(marker)) + 1)

\* str::find: the 0-based offset of the first occurrence, <<>> for None
Find(text, pattern) ==
    LET hits == { k \in 0..(Len(text) - Len(pattern)) :
                    SubSeq(text, k + 1, k + Len(pattern)) = pattern }
    IN  IF hits = {} THEN <<>> ELSE <<CHOOSE k \in hits : \A j \in hits : k <= j>>

\* Backend::offset_to_line_col
OffsetToLineCol(content, offset) ==
    LET before == { i \in 1..Len(content) : i - 1 < offset }
        newlines == { i \in before : content[i] = "\n" }
        line_start == IF newlines = {} THEN 0
                      ELSE CHOOSE i \in newlines : \A j \in newlines : j <= i
    IN  [line |-> Cardinality(newlines),
         character |-> Cardinality({ i \in before : i > line_start })]

TextEdit(content, abs_start, abs_end, new_text) ==
    [range |-> [start |-> OffsetToLineCol(content, abs_start),
                end |-> OffsetToLineCol(content, abs_end)],
     new_text |-> new_text]

\* Backend::replacement_edits_for_file, over the references from index i on
RECURSIVE ReplacementEdits(_, _, _, _, _)
ReplacementEdits(content, references, i, old_id, new_id) ==
    IF i > Len(references) THEN <<>>
    ELSE LET reference == references[i]
             old_text == RuleIdToString(old_id)
             start == reference.span.offset
             end == start + reference.span.length
             local_idx == Find(SubSeq(content, start + 1, end), old_text)
             rest == ReplacementEdits(content, references, i + 1, old_id, new_id)
         IN  IF reference.verb = "define" \/ reference.req_id # old_id THEN rest
             ELSE IF end > Len(content) \/ local_idx = <<>> THEN rest
             ELSE <<TextEdit(content, start + local_idx[1],
                             start + local_idx[1] + Len(old_text), new_id)>> \o rest

ReplacementEditsForFile(markers, old_id, new_id) ==
    ReplacementEdits(FileText(markers), ExtractFromContent(markers, 0), 1, old_id, new_id)

\* tracey_core::is_supported_extension, for the two paths
IsSupportedExtension(path) == path = "src/lib.rs"

\* what an entry point hands back: the edits, and whether a WorkspaceEdit
\* goes to the client
NoChanges == [edits |-> <<>>, workspace_edit |-> FALSE]
Changes(text_edits) == [edits |-> text_edits, workspace_edit |-> TRUE]

\* Backend::apply_unknown_requirement_rename on a workspace of one file
ApplyUnknownRequirementRename(path, markers, old_rule, new_rule) ==
    IF ParseRuleId(old_rule) = <<>> \/ ParseRuleId(new_rule) = <<>> THEN NoChanges
    ELSE IF ~IsSupportedExtension(path) THEN NoChanges
    ELSE LET text_edits ==
                 ReplacementEditsForFile(markers, ParseRuleId(old_rule)[1], new_rule)
         IN  IF text_edits = <<>> THEN NoChanges ELSE Changes(text_edits)

\* the daemon's lsp_rename: the base of the rule under the cursor is rewritten
\* in every marker of that rule, the suffix is left alone; no edit when the
\* new name is the current one
RECURSIVE LspRenameEdits(_, _, _, _, _)
LspRenameEdits(content, references, i, base, new_name) ==
    IF i > Len(references) THEN <<>>
    ELSE LET reference == references[i]
             at == Find(SubSeq(content, reference.span.offset + 1,
                               reference.span.offset + reference.span.length), <<base>>)
             rest == LspRenameEdits(content, references, i + 1, base, new_name)
         IN  IF reference.req_id.base # base THEN rest
             ELSE <<TextEdit(content, reference.span.offset + at[1],
                             reference.span.offset + at[1] + 1, <<new_name>>)>> \o rest

LspRename(markers, position, new_name) ==
    IF position \notin DOMAIN markers \/ markers[position].base = new_name THEN <<>>
    ELSE LspRenameEdits(FileText(markers), ExtractFromContent(markers, 0), 1,
                        markers[position].base, new_name)

\* Backend::rename: the daemon's edits grouped into a WorkspaceEdit
Rename(markers, position, new_name) ==
    IF LspRename(markers, position, new_name) = <<>> THEN NoChanges
    ELSE Changes(LspRename(markers, position, new_name))

\* the calls: textDocument/rename at a marker, and the command
\* tracey.renameUnknownRequirement
RenameCalls ==
    [entry : {"rename"}, path : {"src/lib.rs"}, content : RnContents,
     position : 1..MaxMarkers, new_name : RnBases]
    \cup [entry : {"command"}, path : RnPaths, content : RnContents,
          old_rule : RuleStrings, new_rule : RuleStrings]

RnRename ==
    /\ program = "lsp rename"
    /\ call_result = <<>>
    /\ call_args.entry = "rename"
    /\ call_result' = <<Rename(call_args.content, call_args.position, call_args.new_name)>>
    /\ UNCHANGED <<exceptCall, call_args>>

RnExecuteCommand ==
    /\ program = "lsp rename"
    /\ call_result = <<>>
    /\ call_args.entry = "command"
    /\ call_result' = <<ApplyUnknownRequirementRename(call_args.path, call_args.content,
                                                      call_args.old_rule, call_args.new_rule)>>
    /\ UNCHANGED <<exceptCall, call_args>>

\* the bridge is about to serve a rename
InitRename ==
    /\ program = "lsp rename"
    /\ EnvIdle /\ ServeIdle /\ DaemonIdle /\ StartupIdle /\ AllButCallIdle
    /\ call_args \in RenameCalls
    /\ call_result = <<>>

NextRename ==
    \/ RnRename
    \/ RnExecuteCommand

SpecRename == InitRename /\ [][NextRename]_vars

(***************************************************************************)
(* bridge/mcp.rs: tools/call.  A string is a sequence of pieces.            *)
(***************************************************************************)
\* the values the cwd argument of a call may have
CwdStrings ==
    { <<>>, <<" ">>, <<".">>, <<"src">>, <<"/", "repo">>, <<" ", "/", "repo", " ">>,
      <<"/", "repo", "/", "src">>, <<"/", "other">> }
CwdArguments ==
    { [type |-> "absent", str |-> <<>>], [type |-> "number", str |-> <<>>] }
    \cup [type : {"string"}, str : CwdStrings]

McpTools == {"tracey_status", "tracey_rule", "tracey_frobnicate"}
CallToolParams == [name : McpTools, cwd : CwdArguments, rule_id : BOOLEAN]

\* str::trim
RECURSIVE TrimStart(_)
TrimStart(s) == IF s # <<>> /\ Head(s) = " " THEN TrimStart(Tail(s)) ELSE s
RECURSIVE TrimEnd(_)
TrimEnd(s) ==
    IF s # <<>> /\ s[Len(s)] = " " THEN TrimEnd(SubSeq(s, 1, Len(s) - 1)) ELSE s
Trim(s) == TrimEnd(TrimStart(s))

\* Path::is_absolute
IsAbsolute(path) == path # <<>> /\ path[1] = "/"

\* the error texts of parse_required_cwd (the code quotes cwd in grave accents)
CwdError(message, got) == [message |-> message, got |-> got]
CwdErrorMissing ==
    CwdError("Error: missing required cwd argument (absolute workspace path)", <<>>)
CwdErrorEmpty == CwdError("Error: cwd must not be empty", <<>>)
CwdErrorRelative(cwd) == CwdError("Error: cwd must be an absolute path, got", cwd)

\* parse_required_cwd; the variant takes any path
ParseRequiredCwdAnyPath(cwd) ==
    IF cwd.type # "string" THEN [ok |-> FALSE, error |-> CwdErrorMissing]
    ELSE IF Trim(cwd.str) = <<>> THEN [ok |-> FALSE, error |-> CwdErrorEmpty]
    ELSE [ok |-> TRUE, path |-> Trim(cwd.str)]
ParseRequiredCwd(cwd) ==
    IF cwd.type # "string" THEN [ok |-> FALSE, error |-> CwdErrorMissing]
    ELSE IF Trim(cwd.str) = <<>> THEN [ok |-> FALSE, error |-> CwdErrorEmpty]
    ELSE IF ~IsAbsolute(Trim(cwd.str))
         THEN [ok |-> FALSE, error |-> CwdErrorRelative(Trim(cwd.str))]
    ELSE [ok |-> TRUE, path |-> Trim(cwd.str)]

\* crate::find_project_root_from: the project the directory lies in (here
\* /repo is one), or the directory itself
FindProjectRootFrom(path) ==
    IF Len(path) >= 2 /\ SubSeq(path, 1, 2) = <<"/", "repo">> THEN <<"/", "repo">> ELSE path

\* the requests the QueryClient of a root makes for a tool
ClientRequests(root, params) ==
    { [root |-> root,
       method |-> IF params.name = "tracey_status" THEN "status"
                  ELSE IF params.name = "tracey_rule" /\ params.rule_id THEN "rule"
                  ELSE "config_banner"] }

\* TraceyHandler::handle_call_tool_request
HandleCallToolRequest(params) ==
    /\ program = "mcp tools"
    /\ mcp_call' = <<params>>
    /\ LET cwd == ParseRequiredCwd(params.cwd)
       IN  IF ~cwd.ok
           THEN /\ root_refresh_state' =
                       [root_refresh_state EXCEPT !.last_tool_cwd = <<>>,
                                                  !.last_tool_cwd_error = <<cwd.error>>]
                /\ mcp_response' = <<[error |-> TRUE, text |-> cwd.error]>>
                /\ mcp_sent' = {}
                /\ UNCHANGED active_project_root
           ELSE LET new_root == FindProjectRootFrom(cwd.path)
                IN  /\ active_project_root' = new_root
                    /\ root_refresh_state' =
                           [last_selected_root |-> <<new_root>>,
                            last_refresh_error |-> <<>>,
                            last_tool_cwd |-> <<cwd.path>>,
                            last_tool_cwd_error |-> <<>>]
                    /\ mcp_sent' = ClientRequests(new_root, params)
                    /\ mcp_response' = <<[error |-> FALSE,
                                          text |-> ClientRequests(new_root, params)]>>
    /\ UNCHANGED <<exceptMcp, taskVars>>

\* TraceyHandler::new on the project root the bridge was started in
InitMcp ==
    /\ program = "mcp tools"
    /\ EnvIdle /\ ServeIdle /\ DaemonIdle /\ StartupIdle
    /\ AcceptIdle /\ WatchIdle /\ SupIdle /\ LspIdle /\ DgIdle /\ CallIdle /\ VfsIdle
    /\ active_project_root \in { <<"/", "repo">>, <<"/", "other">> }
    /\ root_refresh_state = RootRefreshStateDefault
    /\ mcp_call = <<>>
    /\ mcp_sent = {}
    /\ mcp_response = <<>>
    /\ TaskIdle

NextMcp == \E params \in CallToolParams : HandleCallToolRequest(params)

SpecMcp == InitMcp /\ [][NextMcp]_vars

(***************************************************************************)
(* bridge/mcp.rs and bridge/lsp.rs: the handlers as concurrent tasks.  A    *)
(* step is what a handler does between two await points; a guard that a    *)
(* step takes and drops is not seen by the other tasks.                     *)
(***************************************************************************)
ToolCalls == {"call 1", "call 2"}
Refreshes == {"refresh"}
LspTasks == {"did_open", "publish"}

InTasks == program = "bridge tasks"

\* the cwd arguments of the concurrent calls
TaskCwds ==
    { [type |-> "string", str |-> <<"/", "repo", "/", "src">>],
      [type |-> "string", str |-> <<"/", "other">>],
      [type |-> "absent", str |-> <<>>] }

\* what roots/list gives: an error, no usable root, or a root
RootLists ==
    { [ok |-> FALSE, selected |-> <<>>], [ok |-> TRUE, selected |-> <<>>],
      [ok |-> TRUE, selected |-> << <<"/", "third">> >>] }

\* the guard of `*self.active_project_root.write().await = ...` is a
\* temporary, dropped at the end of the statement; the variant keeps it to
\* the end of the block
TemporaryGuardKept(task) == task
TemporaryGuard(task) == None

\* handle_call_tool_request up to parse_required_cwd
TcBegin(c, cwd) ==
    /\ InTasks
    /\ task_pc[c] = "idle"
    /\ IF ParseRequiredCwd(cwd).ok
       THEN /\ task_cwd' = [task_cwd EXCEPT ![c] = <<ParseRequiredCwd(cwd).path>>]
            /\ task_pc' = [task_pc EXCEPT ![c] = "write_root"]
       ELSE /\ task_cwd' = [task_cwd EXCEPT ![c] = <<>>]
            /\ task_pc' = [task_pc EXCEPT ![c] = "cwd_error"]
    /\ UNCHANGED <<exceptMcp, active_project_root, root_refresh_state, mcp_call, mcp_sent,
                   mcp_response, task_client, task_roots, active_lock, state_lock, doc_lock, lsp_at>>

\* the Err arm: root_refresh_state.write().await, the error is stored and
\* returned
TcCwdError(c) ==
    /\ InTasks
    /\ task_pc[c] = "cwd_error"
    /\ state_lock = None
    /\ root_refresh_state' = [root_refresh_state EXCEPT !.last_tool_cwd = <<>>,
                                                        !.last_tool_cwd_error = <<"error">>]
    /\ task_pc' = [task_pc EXCEPT ![c] = "done"]
    /\ UNCHANGED <<exceptMcp, active_project_root, mcp_call, mcp_sent, mcp_response,
                   task_cwd, task_client, task_roots, active_lock, state_lock, doc_lock, lsp_at>>

\* *self.active_project_root.write().await = project_root.clone()
TcWriteRoot(c) ==
    /\ InTasks
    /\ task_pc[c] = "write_root"
    /\ active_lock = None
    /\ active_project_root' = FindProjectRootFrom(task_cwd[c][1])
    /\ active_lock' = TemporaryGuard(c)
    /\ task_pc' = [task_pc EXCEPT ![c] = "write_state"]
    /\ UNCHANGED <<exceptMcp, root_refresh_state, mcp_call, mcp_sent, mcp_response,
                   task_cwd, task_client, task_roots, state_lock, doc_lock, lsp_at>>

\* let mut state = self.root_refresh_state.write().await; the four fields
\* are set and the block ends, which drops the guards taken in it
TcWriteState(c) ==
    /\ InTasks
    /\ task_pc[c] = "write_state"
    /\ state_lock = None
    /\ root_refresh_state' =
           [last_selected_root |-> <<FindProjectRootFrom(task_cwd[c][1])>>,
            last_refresh_error |-> <<>>,
            last_tool_cwd |-> task_cwd[c],
            last_tool_cwd_error |-> <<>>]
    /\ active_lock' = IF active_lock = c THEN None ELSE active_lock
    /\ task_pc' = [task_pc EXCEPT ![c] = "current_client"]
    /\ UNCHANGED <<exceptMcp, active_project_root, mcp_call, mcp_sent, mcp_response,
                   task_cwd, task_client, task_roots, state_lock, doc_lock, lsp_at>>

\* current_client: self.active_project_root.read().await.clone(); the tool is
\* answered by the QueryClient of that root
TcCurrentClient(c) ==
    /\ InTasks
    /\ task_pc[c] = "current_client"
    /\ active_lock = None
    /\ task_client' = [task_client EXCEPT ![c] = <<active_project_root>>]
    /\ task_pc' = [task_pc EXCEPT ![c] = "diagnostics_root"]
    /\ UNCHANGED <<exceptMcp, active_project_root, root_refresh_state, mcp_call, mcp_sent,
                   mcp_response, task_cwd, task_roots, active_lock, state_lock, doc_lock, lsp_at>>

\* mcp_routing_diagnostics: self.active_project_root.read().await.clone()
TcDiagnosticsRoot(c) ==
    /\ InTasks
    /\ task_pc[c] = "diagnostics_root"
    /\ active_lock = None
    /\ task_pc' = [task_pc EXCEPT ![c] = "diagnostics_state"]
    /\ UNCHANGED <<exceptMcp, active_project_root, root_refresh_state, mcp_call, mcp_sent,
                   mcp_response, task_cwd, task_client, task_roots, active_lock, state_lock,
                   doc_lock, lsp_at>>

\* mcp_routing_diagnostics: self.root_refresh_state.read().await.clone(), and
\* the response is returned
TcDiagnosticsState(c) ==
    /\ InTasks
    /\ task_pc[c] = "diagnostics_state"
    /\ state_lock = None
    /\ task_pc' = [task_pc EXCEPT ![c] = "done"]
    /\ UNCHANGED <<exceptMcp, active_project_root, root_refresh_state, mcp_call, mcp_sent,
                   mcp_response, task_cwd, task_client, task_roots, active_lock, state_lock,
                   doc_lock, lsp_at>>

\* refresh_project_root_from_client_roots: client_supports_root_list is
\* stored under the state lock; without the capability the refresh ends
RfBegin(r, supports_roots) ==
    /\ InTasks
    /\ task_pc[r] = "idle"
    /\ state_lock = None
    /\ task_pc' = [task_pc EXCEPT ![r] = IF supports_roots = <<TRUE>> THEN "request_root_list"
                                         ELSE "done"]
    /\ UNCHANGED <<exceptMcp, active_project_root, root_refresh_state, mcp_call, mcp_sent,
                   mcp_response, task_cwd, task_client, task_roots, active_lock, state_lock,
                   doc_lock, lsp_at>>

\* runtime.request_root_list(None).await and select_project_root_from_roots
RfRequestRootList(r, roots) ==
    /\ InTasks
    /\ task_pc[r] = "request_root_list"
    /\ task_roots' = [task_roots EXCEPT ![r] = roots]
    /\ task_pc' = [task_pc EXCEPT ![r] = "lock_state"]
    /\ UNCHANGED <<exceptMcp, active_project_root, root_refresh_state, mcp_call, mcp_sent,
                   mcp_response, task_cwd, task_client, active_lock, state_lock, doc_lock, lsp_at>>

\* let mut state = self.root_refresh_state.write().await: with an error or
\* without a usable root last_refresh_error is set and the guard dropped;
\* with a root the guard is held while the root's lock is awaited
RfLockState(r) ==
    /\ InTasks
    /\ task_pc[r] = "lock_state"
    /\ state_lock = None
    /\ IF task_roots[r].selected = <<>>
       THEN /\ root_refresh_state' =
                   [root_refresh_state EXCEPT !.last_refresh_error =
                        IF task_roots[r].ok THEN <<"roots/list returned no usable file:// root">>
                        ELSE <<"roots/list request failed">>]
            /\ task_pc' = [task_pc EXCEPT ![r] = "done"]
            /\ UNCHANGED state_lock
       ELSE /\ state_lock' = r
            /\ task_pc' = [task_pc EXCEPT ![r] = "write_root"]
            /\ UNCHANGED root_refresh_state
    /\ UNCHANGED <<exceptMcp, active_project_root, mcp_call, mcp_sent, mcp_response,
                   task_cwd, task_client, task_roots, active_lock, doc_lock, lsp_at>>

\* *self.active_project_root.write().await = project_root.clone(), the state
\* is updated and its guard dropped
RfWriteRoot(r) ==
    /\ InTasks
    /\ task_pc[r] = "write_root"
    /\ active_lock = None
    /\ active_project_root' = task_roots[r].selected[1]
    /\ root_refresh_state' =
           [root_refresh_state EXCEPT !.last_selected_root = task_roots[r].selected,
                                      !.last_refresh_error = <<>>]
    /\ state_lock' = None
    /\ task_pc' = [task_pc EXCEPT ![r] = "done"]
    /\ UNCHANGED <<exceptMcp, mcp_call, mcp_sent, mcp_response, task_cwd, task_client,
                   task_roots, active_lock, doc_lock, lsp_at>>

\* the LSP handlers as what they do in turn: did_open locks doc_state,
\* inserts the document, unlocks and awaits notify_vfs_open;
\* publish_workspace_diagnostics_with awaits the daemon, takes the files to
\* clear under the lock, awaits the publications and stores the published
\* paths under the lock
LspSteps ==
    [ did_open |-> <<"lock", "unlock", "await">>,
      publish |-> <<"await", "lock", "unlock", "await", "lock", "unlock">> ]

LspNext(h) == IF lsp_at[h] <= Len(LspSteps[h]) THEN LspSteps[h][lsp_at[h]] ELSE "done"

\* self.doc_state.lock().unwrap()
LsLock(h) ==
    /\ InTasks
    /\ LspNext(h) = "lock"
    /\ doc_lock = None
    /\ doc_lock' = h
    /\ lsp_at' = [lsp_at EXCEPT ![h] = @ + 1]
    /\ UNCHANGED <<exceptMcp, active_project_root, root_refresh_state, mcp_call, mcp_sent,
                   mcp_response, task_pc, task_cwd, task_client, task_roots, active_lock,
                   state_lock>>

\* the end of the block that holds the guard
LsUnlock(h) ==
    /\ InTasks
    /\ LspNext(h) = "unlock"
    /\ doc_lock' = None
    /\ lsp_at' = [lsp_at EXCEPT ![h] = @ + 1]
    /\ UNCHANGED <<exceptMcp, active_project_root, root_refresh_state, mcp_call, mcp_sent,
                   mcp_response, task_pc, task_cwd, task_client, task_roots, active_lock,
                   state_lock>>

\* an .await of the handler returns
LsAwait(h) ==
    /\ InTasks
    /\ LspNext(h) = "await"
    /\ lsp_at' = [lsp_at EXCEPT ![h] = @ + 1]
    /\ UNCHANGED <<exceptMcp, active_project_root, root_refresh_state, mcp_call, mcp_sent,
                   mcp_response, task_pc, task_cwd, task_client, task_roots, active_lock,
                   state_lock, doc_lock>>

\* the bridges have started; two tool calls, a roots refresh and two LSP
\* handlers are about to run
InitTasks ==
    /\ program = "bridge tasks"
    /\ EnvIdle /\ ServeIdle /\ DaemonIdle /\ StartupIdle
    /\ AcceptIdle /\ WatchIdle /\ SupIdle /\ LspIdle /\ DgIdle /\ CallIdle /\ VfsIdle
    /\ active_project_root = <<"/", "repo">>
    /\ root_refresh_state = RootRefreshStateDefault
    /\ mcp_call = <<>>
    /\ mcp_sent = {}
    /\ mcp_response = <<>>
    /\ task_pc = [t \in ToolCalls \cup Refreshes |-> "idle"]
    /\ lsp_at = [h \in LspTasks |-> 1]
    /\ task_cwd = [c \in ToolCalls |-> <<>>]
    /\ task_client = [c \in ToolCalls |-> <<>>]
    /\ task_roots = [r \in Refreshes |-> [ok |-> TRUE, selected |-> <<>>]]
    /\ active_lock = None
    /\ state_lock = None
    /\ doc_lock = None

NextTasks ==
    \/ \E c \in ToolCalls, cwd \in TaskCwds : TcBegin(c, cwd)
    \/ \E c \in ToolCalls : TcCwdError(c)
    \/ \E c \in ToolCalls : TcWriteRoot(c)
    \/ \E c \in ToolCalls : TcWriteState(c)
    \/ \E c \in ToolCalls : TcCurrentClient(c)
    \/ \E c \in ToolCalls : TcDiagnosticsRoot(c)
    \/ \E c \in ToolCalls : TcDiagnosticsState(c)
    \/ \E r \in Refreshes, supports_roots \in {<<>>, <<FALSE>>, <<TRUE>>} :
          RfBegin(r, supports_roots)
    \/ \E r \in Refreshes, roots \in RootLists : RfRequestRootList(r, roots)
    \/ \E r \in Refreshes : RfLockState(r)
    \/ \E r \in Refreshes : RfWriteRoot(r)
    \/ \E h \in LspTasks : LsLock(h)
    \/ \E h \in LspTasks : LsUnlock(h)
    \/ \E h \in LspTasks : LsAwait(h)

SpecTasks == InitTasks /\ [][NextTasks]_vars

(***************************************************************************)
(* Coverage roll-ups: the status answer and the reverse view.               *)
(***************************************************************************)
MaxCovRefs == 3
MaxUnits == 2

\* the rules a spec may define, the ids references may name (ghost is
\* defined nowhere), and the impls of the spec
CovRules == {"auth.login", "auth.logout"}
CovRefIds == CovRules \cup {"ghost"}
CovImpls == {"rust", "swift"}
CovRefs == [impl : CovImpls, verb : {"impl", "verify"}, id : CovRefIds]

\* status(): for each (spec, impl) the rules of the spec, those with an impl
\* reference and those with a verify reference
ImplStatus(rules, refs, impl) ==
    [total_rules |-> Cardinality(rules),
     covered_rules |->
         Cardinality({ id \in rules :
                         \E r \in refs : r.impl = impl /\ r.verb = "impl" /\ r.id = id }),
     verified_rules |->
         Cardinality({ id \in rules :
                         \E r \in refs : r.impl = impl /\ r.verb = "verify" /\ r.id = id })]

Status(rules, refs) == [impl \in CovImpls |-> ImplStatus(rules, refs, impl)]

\* the source files in the order of their paths, and the code units of a
\* file, each with the rules it references
CovFiles == <<"src/a.rs", "src/b.rs">>
CovUnits == [rule_refs : SUBSET CovRules]
CovUnitLists == UNION { [1..n -> CovUnits] : n \in 0..MaxUnits }

\* code_units_by_file: a file without code units is not inserted
CodeUnitsByFile(units_of) == { i \in DOMAIN CovFiles : units_of[i] # <<>> }

\* the ApiFileEntry of a file; the variant counts references, not units
FileEntryCountingRefs(path, units) ==
    [path |-> path,
     total_units |-> Len(units),
     covered_units |-> Cardinality({ <<u, id>> \in (DOMAIN units) \X CovRules :
                                       id \in units[u].rule_refs })]
FileEntry(path, units) ==
    [path |-> path,
     total_units |-> Len(units),
     covered_units |-> Cardinality({ u \in DOMAIN units : units[u].rule_refs # {} })]

RECURSIVE SumOver(_, _)
SumOver(entries, field) ==
    IF entries = <<>> THEN 0 ELSE Head(entries)[field] + SumOver(Tail(entries), field)

RECURSIVE FileEntries(_, _)
FileEntries(units_of, i) ==
    IF i > Len(CovFiles) THEN <<>>
    ELSE (IF i \in CodeUnitsByFile(units_of)
          THEN <<FileEntry(CovFiles[i], units_of[i])>> ELSE <<>>)
         \o FileEntries(units_of, i + 1)

\* the reverse summary of build_dashboard_data
ApiReverseData(units_of) ==
    [total_units |-> SumOver(FileEntries(units_of, 1), "total_units"),
     covered_units |-> SumOver(FileEntries(units_of, 1), "covered_units"),
     files |-> FileEntries(units_of, 1)]

\* the questions: a status query on a workspace, or the reverse view of one
CoverageCalls ==
    [fn : {"status"}, rules : SUBSET CovRules,
     refs : { refs \in SUBSET CovRefs : Cardinality(refs) <= MaxCovRefs }]
    \cup [fn : {"reverse"}, units_of : [DOMAIN CovFiles -> CovUnitLists]]

CvStatus ==
    /\ program = "coverage"
    /\ call_result = <<>>
    /\ call_args.fn = "status"
    /\ call_result' = <<Status(call_args.rules, call_args.refs)>>
    /\ UNCHANGED <<exceptCall, call_args>>

CvReverse ==
    /\ program = "coverage"
    /\ call_result = <<>>
    /\ call_args.fn = "reverse"
    /\ call_result' = <<ApiReverseData(call_args.units_of)>>
    /\ UNCHANGED <<exceptCall, call_args>>

InitCoverage ==
    /\ program = "coverage"
    /\ EnvIdle /\ ServeIdle /\ DaemonIdle /\ StartupIdle /\ AllButCallIdle
    /\ call_args \in CoverageCalls
    /\ call_result = <<>>

NextCoverage ==
    \/ CvStatus
    \/ CvReverse

SpecCoverage == InitCoverage /\ [][NextCoverage]_vars

(***************************************************************************)
(* bridge/lsp.rs: the editor's buffers, and the engine's overlay of them.   *)
(***************************************************************************)
\* the files of the workspace
VfsPaths == { <<"/", "repo", "/", "a.rs">>, <<"/", "repo", "/", "b.rs">> }

\* the documents an editor may open: the two files, and an unsaved buffer
VfsUris ==
    [scheme : {"file"}, path : VfsPaths] \cup { [scheme |-> "untitled", path |-> <<"1">>] }

DiskContents == {"disk 1", "disk 2"}
BufferContents == {"buffer 1", "buffer 2"}

\* Url::to_file_path: <<>> for Err
UrlToFilePath(uri) == IF uri.scheme = "file" THEN <<uri.path>> ELSE <<>>

\* the daemon's vfs_open and vfs_change: the buffer overlays the file; the
\* variant of vfs_close keeps the overlay
VfsOpen(overlay, path, content) == [overlay EXCEPT ![path] = <<content>>]
VfsCloseKeepsOverlay(overlay, path) == overlay
VfsClose(overlay, path) == [overlay EXCEPT ![path] = <<>>]

\* a file as a rebuild reads it: from the overlay if there is one
ReadFile(overlay, on_disk, path) ==
    IF overlay[path] # <<>> THEN overlay[path][1] ELSE on_disk[path]

InVfs == program \in {"lsp vfs", "lsp documents"}

\* the history of the calls sent is kept where the document cache is looked at
KeepsSent == program = "lsp documents"

\* notify_vfs_open and notify_vfs_change: the call is made when the URI is a
\* file path, and its result is dropped
NotifyVfsOpen(op, uri, content, rpc_ok) ==
    /\ IF UrlToFilePath(uri) # <<>> /\ KeepsSent
       THEN vfs_sent' = [vfs_sent EXCEPT ![uri] =
                [op |-> op, content |-> content, cached |-> documents'[uri]]]
       ELSE UNCHANGED vfs_sent
    /\ IF UrlToFilePath(uri) # <<>> /\ rpc_ok /\ ToStringLossy(UrlToFilePath(uri)[1]) \in VfsPaths
       THEN LET path == ToStringLossy(UrlToFilePath(uri)[1])
            IN  /\ vfs_overlay' = VfsOpen(vfs_overlay, path, content)
                /\ vfs_last' = [vfs_last EXCEPT ![path] = [op |-> op, content |-> content]]
       ELSE UNCHANGED <<vfs_overlay, vfs_last>>

\* notify_vfs_close
NotifyVfsClose(uri, rpc_ok) ==
    /\ IF UrlToFilePath(uri) # <<>> /\ KeepsSent
       THEN vfs_sent' = [vfs_sent EXCEPT ![uri] =
                [op |-> "vfs_close", content |-> "", cached |-> documents'[uri]]]
       ELSE UNCHANGED vfs_sent
    /\ IF UrlToFilePath(uri) # <<>> /\ rpc_ok /\ ToStringLossy(UrlToFilePath(uri)[1]) \in VfsPaths
       THEN LET path == ToStringLossy(UrlToFilePath(uri)[1])
            IN  /\ vfs_overlay' = VfsClose(vfs_overlay, path)
                /\ vfs_last' = [vfs_last EXCEPT ![path] = [op |-> "vfs_close", content |-> ""]]
       ELSE UNCHANGED <<vfs_overlay, vfs_last>>

\* Backend::did_open
DidOpen(uri, content, rpc_ok) ==
    /\ InVfs
    /\ documents' = [documents EXCEPT ![uri] = <<content>>]
    /\ NotifyVfsOpen("vfs_open", uri, content, rpc_ok)
    /\ UNCHANGED <<exceptVfs, vfs_disk, vfs_read>>

\* Backend::did_change: the first content change counts
DidChange(uri, content_changes, rpc_ok) ==
    /\ InVfs
    /\ IF content_changes # <<>>
       THEN /\ documents' = [documents EXCEPT ![uri] = <<Head(content_changes)>>]
            /\ NotifyVfsOpen("vfs_change", uri, Head(content_changes), rpc_ok)
       ELSE UNCHANGED <<documents, vfs_overlay, vfs_last, vfs_sent>>
    /\ UNCHANGED <<exceptVfs, vfs_disk, vfs_read>>

\* Backend::did_save: with the text, when the editor sends it
DidSave(uri, text, rpc_ok) ==
    /\ InVfs
    /\ UNCHANGED documents
    /\ IF text # <<>>
       THEN NotifyVfsOpen("vfs_change", uri, text[1], rpc_ok)
       ELSE UNCHANGED <<vfs_overlay, vfs_last, vfs_sent>>
    /\ UNCHANGED <<exceptVfs, vfs_disk, vfs_read>>

\* a variant of did_close that keeps the cached document
DidCloseKeepsDocument(uri, rpc_ok) ==
    /\ InVfs
    /\ UNCHANGED documents
    /\ NotifyVfsClose(uri, rpc_ok)
    /\ UNCHANGED <<exceptVfs, vfs_disk, vfs_read>>

\* Backend::did_close
DidClose(uri, rpc_ok) ==
    /\ InVfs
    /\ documents' = [documents EXCEPT ![uri] = <<>>]
    /\ NotifyVfsClose(uri, rpc_ok)
    /\ UNCHANGED <<exceptVfs, vfs_disk, vfs_read>>

\* a file changes on disk
VfsWriteDisk(path, content) ==
    /\ InVfs
    /\ vfs_disk[path] # content
    /\ vfs_disk' = [vfs_disk EXCEPT ![path] = content]
    /\ UNCHANGED <<exceptVfs, documents, vfs_overlay, vfs_read, vfs_last, vfs_sent>>

\* the engine rebuilds: every file is read through the overlay
VfsRebuild ==
    /\ InVfs
    /\ vfs_read' = [path \in VfsPaths |-> ReadFile(vfs_overlay, vfs_disk, path)]
    /\ UNCHANGED <<exceptVfs, documents, vfs_overlay, vfs_disk, vfs_last, vfs_sent>>

\* the bridge and the daemon are up, no document is open and the engine has
\* built its first snapshot from the disk
InitVfs ==
    /\ program = "lsp vfs"
    /\ EnvIdle /\ ServeIdle /\ DaemonIdle /\ StartupIdle
    /\ AcceptIdle /\ WatchIdle /\ SupIdle /\ LspIdle /\ DgIdle /\ CallIdle /\ McpIdle
    /\ documents = [uri \in VfsUris |-> <<>>]
    /\ vfs_overlay = [path \in VfsPaths |-> <<>>]
    /\ vfs_disk \in [VfsPaths -> DiskContents]
    /\ vfs_read = vfs_disk
    /\ vfs_last = [path \in VfsPaths |-> [op |-> "none", content |-> ""]]
    /\ vfs_sent = [uri \in VfsUris |-> [op |-> "none", content |-> "", cached |-> <<>>]]

NextVfs ==
    \/ \E uri \in VfsUris, content \in BufferContents, rpc_ok \in BOOLEAN :
          DidOpen(uri, content, rpc_ok)
    \/ \E uri \in VfsUris, rpc_ok \in BOOLEAN :
          \E content_changes \in {<<>>} \cup { <<a, b>> : a, b \in BufferContents } :
              DidChange(uri, content_changes, rpc_ok)
    \/ \E uri \in VfsUris, rpc_ok \in BOOLEAN :
          \E text \in {<<>>} \cup { <<c>> : c \in BufferContents } : DidSave(uri, text, rpc_ok)
    \/ \E uri \in VfsUris, rpc_ok \in BOOLEAN : DidClose(uri, rpc_ok)
    \/ \E path \in VfsPaths, content \in DiskContents : VfsWriteDisk(path, content)
    \/ VfsRebuild

SpecVfs == InitVfs /\ [][NextVfs]_vars

\* the same bridge, looked at for its document cache: the files stay as they
\* are on disk and no rebuild runs
InitDocuments ==
    /\ program = "lsp documents"
    /\ EnvIdle /\ ServeIdle /\ DaemonIdle /\ StartupIdle
    /\ AcceptIdle /\ WatchIdle /\ SupIdle /\ LspIdle /\ DgIdle /\ CallIdle /\ McpIdle
    /\ documents = [uri \in VfsUris |-> <<>>]
    /\ vfs_overlay = [path \in VfsPaths |-> <<>>]
    /\ vfs_disk = [path \in VfsPaths |-> "disk 1"]
    /\ vfs_read = vfs_disk
    /\ vfs_last = [path \in VfsPaths |-> [op |-> "none", content |-> ""]]
    /\ vfs_sent = [uri \in VfsUris |-> [op |-> "none", content |-> "", cached |-> <<>>]]

NextDocuments ==
    \/ \E uri \in VfsUris, content \in BufferContents, rpc_ok \in BOOLEAN :
          DidOpen(uri, content, rpc_ok)
    \/ \E uri \in VfsUris, rpc_ok \in BOOLEAN :
          \E content_changes \in {<<>>} \cup { <<a, b>> : a, b \in BufferContents } :
              DidChange(uri, content_changes, rpc_ok)
    \/ \E uri \in VfsUris, rpc_ok \in BOOLEAN :
          \E text \in {<<>>} \cup { <<c>> : c \in BufferContents } : DidSave(uri, text, rpc_ok)
    \/ \E uri \in VfsUris, rpc_ok \in BOOLEAN : DidClose(uri, rpc_ok)

SpecDocuments == InitDocuments /\ [][NextDocuments]_vars

\* glob_to_watch_dir is about to be called on a glob
InitGlob ==
    /\ program = "glob_to_watch_dir"
    /\ EnvIdle /\ ServeIdle /\ DaemonIdle /\ StartupIdle /\ AllButCallIdle
    /\ call_args \in Globs
    /\ call_result = <<>>

NextGlob == GwCall

SpecGlob == InitGlob /\ [][NextGlob]_vars

\* Engine::new has built the snapshot of the workspace it was given
InitDiagnostics ==
    /\ program = "engine diagnostics"
    /\ EnvIdle /\ ServeIdle /\ DaemonIdle /\ StartupIdle /\ AcceptIdle /\ WatchIdle /\ SupIdle
    /\ LspIdle /\ ExtraIdle
    /\ dg_defs \in DefTables
    /\ dg_refs \in RefSets
    /\ dg_snapshot = BuildSnapshot(dg_defs, dg_refs)
    /\ dg_last = NoEdit

NextDiagnostics ==
    \/ \E spec \in DgSpecs : \E base \in DgBasesOf[spec], version \in 0..MaxVersion :
          DgSetRule(spec, base, version)
    \/ \E marker \in DgMarkers : DgAddMarker(marker)
    \/ \E marker \in DgMarkers : DgRemoveMarker(marker)
    \/ DgRebuild

SpecDiagnostics == InitDiagnostics /\ [][NextDiagnostics]_vars

\* tokio::select! polls its branches in random order: the shutdown branch,
\* ready from the moment the signal is set, is eventually the one taken
LiveSpecAccept ==
    /\ InitAccept /\ [][NextAccept]_vars
    /\ WF_vars(AcShutdownBranch)

\* time passes, and the accept's 30 s time-out fires when nothing else does
LiveSpecAcceptIdle ==
    /\ InitAccept /\ [][NextAccept]_vars
    /\ WF_vars(AcTick)
    /\ WF_vars(AcTimeout)

Next ==
    \/ EditFile
    \/ EditIgnored
    \/ SvDebouncerCallback
    \/ SvRebuildBegin
    \/ SvRebuildEnd
    \/ ApiBorrow
    \/ ApiRespond
    \/ DmEngineNew
    \/ DmWatcherHandler
    \/ DmRebuildTask
    \/ \E p \in Callers : EngRebuildEnd(p)
    \/ RpcReload
    \/ \E op \in QueryOps : RpcQuery(op)
    \/ BrSubscribe
    \/ BrRecv
    \/ BrStreamEnds

Spec == Init /\ [][Next]_vars

\* the watcher threads and the spawned tasks keep running: a callback, a task
\* or a build that can take its step eventually takes it (what clients and
\* editors do is left open)
LiveSpec ==
    /\ Init /\ [][Next]_vars
    /\ WF_vars(SvDebouncerCallback)
    /\ WF_vars(SvRebuildBegin)
    /\ WF_vars(SvRebuildEnd)
    /\ WF_vars(DmEngineNew)
    /\ WF_vars(DmWatcherHandler)
    /\ WF_vars(DmRebuildTask)
    /\ \A p \in Callers : WF_vars(EngRebuildEnd(p))

\* the bridge's subscription loop keeps running as well
LiveSpecSubscriber ==
    /\ LiveSpec
    /\ WF_vars(BrSubscribe)
    /\ WF_vars(BrRecv)

(***************************************************************************)
(* Claims about the dashboard server's rebuild loop (serve.rs).            *)
(***************************************************************************)
\* the step in which the rebuild task's build returns
SvRebuildEnds == sv_rb.pc = "building" /\ sv_rb'.pc = "recv"

C2_VersionMonotonic ==
    [][ program = "serve"
        => /\ sv_data'.version >= sv_data.version
           /\ (SvRebuildEnds /\ ~BuildFails(sv_rb.config)
                   /\ SvBuilt.content_hash # sv_data.content_hash)
               => /\ sv_data'.content_hash = SvBuilt.content_hash
                  /\ \A d \in sv_published : sv_data'.version > d.version ]_vars

\* a rebuild has published a new snapshot and a later rebuild has failed
C2_Witness ==
    /\ Cardinality(sv_published) >= 2
    /\ sv_last \in {"build_error", "config_error"}

\* a snapshot all of whose views come from one build
OneBuild(d) ==
    \E t \in Trees, c \in ConfigFiles :
        d = [BuildDashboardData(t, c, 0) EXCEPT !.version = d.version]

EngRebuildSucceeds(p) ==
    /\ EngRebuildEnd(p)
    /\ EngConfigError(eng_rb[p].config) = None

\* the step in which the rebuild that p runs completes on a config that is
\* absent, malformed or semantically invalid
EngRebuildRejectsConfig(p) ==
    /\ EngRebuildEnd(p)
    /\ EngConfigError(eng_rb[p].config) # None

\* C3: every successful rebuild leaves the engine's version strictly greater
\* than it was before the call, also when nothing in the workspace changed.
C3_RebuildAlwaysIncrementsVersion ==
    [][ \A p \in Callers :
            EngRebuildSucceeds(p) => eng_data'.version > eng_data.version ]_vars

\* C4: at most one rebuild is running at any time, however the calls that
\* schedule a rebuild (from watcher events and from RPC handlers) interleave.
C4_AtMostOneRebuild ==
    /\ sv_running <= 1
    /\ Cardinality({p \in Callers : caller[p] = "rebuilding"}) <= 1
    /\ (\E p \in Callers : caller[p] = "rebuilding") => eng_in_progress

\* the RPC handler is running a rebuild and the rebuild task has asked for
\* another one meanwhile
C4_Witness ==
    /\ program = "daemon+cli"
    /\ caller["rpc_handler"] = "rebuilding"
    /\ eng_dirty

\* C6: a subscriber receives a subsequence of the published versions, in the
\* order of publication: every version it takes was published, and none is
\* lower than one it took before.
C6_SubscriberSeesVersionsInOrder ==
    [][ bridge'.last_version # bridge.last_version
        => /\ bridge'.last_version # <<>>
           /\ bridge'.last_version[1] \in eng_versions
           /\ bridge.last_version # <<>>
                => bridge'.last_version[1] > bridge.last_version[1] ]_vars

\* the subscriber has taken a version above the first and is subscribed again
\* after its stream ended
C6_Witness ==
    /\ program = "daemon+lsp"
    /\ bridge.last_version # <<>>
    /\ bridge.last_version[1] > ENGINE_FIRST_VERSION
    /\ calls > 0
    /\ bridge.pc = "recv"

\* C8: when the config is invalid at a reload or rebuild, the error is recorded
\* (health reports it), the program keeps running, and queries are answered
\* from the data of the last good build.
C8_InvalidConfigKeepsPreviousData ==
    /\ [][ \A p \in Callers :
             EngRebuildRejectsConfig(p)
             => /\ eng_data'.config_error = eng_rb[p].config
                /\ EngViews(eng_data') = EngViews(eng_data)
                /\ eng_data'.version = eng_data.version ]_vars
    /\ [][ (sv_rb.pc = "recv" /\ debounce_ch' < debounce_ch
                /\ disk.config \in {"malformed", "absent"})
           => sv_data' = sv_data /\ sv_rb'.pc = "recv" ]_vars
    /\ [][ (SvRebuildEnds /\ sv_rb.config # "valid")
           => sv_data' = sv_data ]_vars
    /\ [][ (rpc_resp' # rpc_resp /\ rpc_resp'[1].op = "health")
           => rpc_resp'[1].result = [config_error |-> eng_data.config_error] ]_vars
    /\ [][ (rpc_resp' # rpc_resp /\ rpc_resp'[1].op = "status")
           => rpc_resp'[1].result = EngViews(eng_data) ]_vars
    /\ []((DmRunning /\ program = "daemon+cli" /\ calls < MaxCalls)
            => \A op \in QueryOps : ENABLED RpcQuery(op))

\* after a good build a rebuild met a bad config, and a status request was then
\* answered with the data of the good build
C8_Witness ==
    /\ program = "daemon+cli"
    /\ eng_versions # {}
    /\ eng_data.config_error # None
    /\ eng_data.config = "valid"
    /\ rpc_resp # <<>>
    /\ rpc_resp[1].op = "status"
    /\ rpc_resp[1].result # EngEmptyViews

\* C9: Engine::new returns an engine also when the config is absent, malformed
\* or semantically invalid: the error is recorded, the data is empty, and
\* health and status are answered.
C9_EngineStartsWithBadConfig ==
    /\ []((IsDaemon /\ eng_versions = {}) => ENABLED DmEngineNew)
    /\ [][ (eng_versions = {} /\ eng_versions' # {} /\ disk.config # "valid")
           => /\ eng_data'.config_error = disk.config
              /\ EngViews(eng_data') = EngEmptyViews
              /\ eng_data'.config = None ]_vars
    /\ []((DmRunning /\ program = "daemon+cli" /\ calls < MaxCalls)
            => ENABLED RpcQuery("health") /\ ENABLED RpcQuery("status"))

\* an engine built on a bad config has answered a health request with the error
C9_Witness ==
    /\ program = "daemon+cli"
    /\ eng_versions # {}
    /\ eng_data.config = None
    /\ eng_data.config_error # None
    /\ rpc_resp # <<>>
    /\ rpc_resp[1].op = "health"
    /\ rpc_resp[1].result = [config_error |-> eng_data.config_error]

(***************************************************************************)
(* Claims about changes that arrive during a rebuild.                      *)
(***************************************************************************)
\* the published snapshot is the one a build of the workspace on disk gives
SvReflectsDisk ==
    [sv_data EXCEPT !.version = 0] = BuildDashboardData(disk.tree, disk.config, 0)

\* the engine's snapshot shows the workspace on disk: its views, or the error
\* of its config
EngReflectsDisk ==
    IF EngConfigError(disk.config) = None
    THEN EngViews(eng_data) = EngViews(EngBuild(disk.tree, disk.config, 0))
    ELSE eng_data.config_error = EngConfigError(disk.config)

\* C5 as stated: every scheduled change is eventually reflected in a published
\* result, so once the edits stop the published result shows the workspace.
C5_EveryChangeReachesAPublishedResult ==
    /\ <>[](program = "serve" => SvReflectsDisk)
    /\ <>[](DmRunning => EngReflectsDisk)

\* C5 (amended): a change scheduled while a rebuild is in progress is not lost.
\* The rebuild in flight is not aborted; after it a further rebuild begins, which
\* reads the workspace as the change left it; and once the edits stop, if the
\* config on disk loads and builds, the published content hash is the hash of
\* the workspace on disk. A rebuild that fails publishes nothing.
C5_ScheduledChangeIsRebuilt ==
    /\ [][ (sv_rb.pc = "building" /\ debounce_ch' > debounce_ch)
           => sv_rb' = sv_rb ]_vars
    /\ [][ (~eng_dirty /\ eng_dirty') => (caller' = caller /\ eng_rb' = eng_rb) ]_vars
    /\ (sv_rb.pc = "building" /\ debounce_ch > 0)
         ~> (sv_rb.pc = "recv" /\ debounce_ch = 0)
    /\ eng_dirty ~> ~eng_dirty
    /\ [][ (eng_dirty /\ ~eng_dirty')
           => \E p \in Callers : caller'[p] = "rebuilding" /\ eng_rb'[p] = EngReadDisk ]_vars
    /\ <>[]((program = "serve" /\ LoadConfigOk(disk.config) /\ ~BuildFails(disk.config))
             => sv_data.content_hash
                  = BuildDashboardData(disk.tree, disk.config, 0).content_hash)
    /\ <>[]((DmRunning /\ EngConfigError(disk.config) = None)
             => eng_data.content_hash
                  = EngBuild(disk.tree, disk.config, 0).content_hash)

\* a rebuild is running on a workspace that has changed since it was read, and
\* the change is scheduled
C5_Witness ==
    /\ sv_rb.pc = "building"
    /\ debounce_ch > 0
    /\ sv_rb.tree # disk.tree

(***************************************************************************)
(* Claims about the daemon's start-up.                                     *)
(***************************************************************************)
\* C10: on start-up, when the endpoint exists and accepts a connection the
\* start fails with "Daemon already running" and neither builds an engine nor
\* binds a listener; when the endpoint exists and the connection fails, the
\* endpoint is removed as stale and the start goes on to the engine and the
\* bind.
C10_LiveEndpointRefusedStaleRemoved ==
    [][ \A d \in Daemons :
          /\ (DmConnect(d) /\ ConnectOk)
               => /\ startup'[d].pc = "off"
                  /\ startup'[d].result = "Daemon already running"
                  /\ ~startup'[d].engine /\ ~startup'[d].listener
                  /\ endpoint' = endpoint
          /\ (DmConnect(d) /\ ~ConnectOk) => startup'[d].pc = "remove_endpoint"
          /\ DmRemoveStale(d) => (~endpoint'.file /\ startup'[d].pc = "engine")
          /\ (DmCreateEngine(d) /\ startup'[d].engine) => startup'[d].pc = "bind"
          /\ (DmBind(d) /\ ~endpoint.file)
               => (startup'[d].listener /\ endpoint' = [file |-> TRUE, owner |-> d])
          /\ (startup[d].saw = "live" /\ startup'[d].saw = "live")
               => (~startup'[d].engine /\ ~startup'[d].listener)
      ]_vars

\* one start found a stale endpoint, removed it and now listens; another start
\* found that listener and was refused
C10_Witness ==
    \E d, e \in Daemons :
        /\ startup[d].saw = "stale" /\ startup[d].pc = "accept"
        /\ endpoint = [file |-> TRUE, owner |-> d]
        /\ startup[e].saw = "live" /\ startup[e].result = "Daemon already running"

(***************************************************************************)
(* Claims about the daemon's accept loop (daemon/mod.rs).                  *)
(***************************************************************************)
\* C11: the accept loop returns on its idle path only at an accept time-out at
\* which there is no active connection and at least 600 s have passed since a
\* connection was last accepted or closed (since the start when there was
\* none), and never while a connection is open.
C11_IdleExitOnlyAfterIdleTimeout ==
    [][ (exit_path = None /\ exit_path' = "idle")
        => /\ select_wait >= ACCEPT_TIMEOUT_SECS
           /\ active_connections = 0
           /\ \A c \in Conns : conn[c] # "open"
           /\ clock - last_change >= DEFAULT_IDLE_TIMEOUT_SECS ]_vars

\* C12: once the shutdown request has set the signal, the accept loop takes
\* its shutdown branch, whatever the connections and the idle time are; the
\* branch removes the endpoint and returns, so the daemon is eventually out of
\* the accept loop with its endpoint removed.
C12_ShutdownLeavesAcceptLoop ==
    /\ [][ (exit_path = None /\ exit_path' = "shutdown")
            => /\ endpoint.file /\ ~endpoint'.file
               /\ ~startup'[Acceptor].listener ]_vars
    /\ []((InAcceptLoop /\ shutdown_rx.changed) => ENABLED AcShutdownBranch)
    /\ (shutdown_rx.value ~> (~InAcceptLoop /\ ~endpoint.file))

\* the daemon has returned on a shutdown request while a connection was active
\* and well before the idle time-out
C12_Witness ==
    /\ exit_path = "shutdown"
    /\ active_connections > 0
    /\ clock - last_activity < DEFAULT_IDLE_TIMEOUT_SECS
    /\ ~endpoint.file

(***************************************************************************)
(* Claims about the classification of watcher batches (daemon/mod.rs).     *)
(***************************************************************************)
\* the paths that are the config file or .gitignore, an ancestor directory of
\* either, or inside the config file's parent directory
TouchesConfig ==
    { <<>>,
      << <<"repo">> >>,
      << <<"repo">>, <<".config">> >>,
      << <<"repo">>, <<".config">>, <<"tracey">> >>,
      << <<"repo">>, <<".config">>, <<"tracey">>, <<"config", ".styx">> >>,
      << <<"repo">>, <<".config">>, <<"tracey">>, <<".", "config", ".styx", ".tmp">> >>,
      << <<"repo">>, <<".config">>, <<"tracey">>, <<"notes", ".md">> >>,
      << <<"repo">>, <<".gitignore">> >> }

\* the paths whose names are those of editor temp artifacts
TempArtifacts ==
    { << <<"repo">>, <<".config">>, <<"tracey">>, <<".", "config", ".styx", ".tmp">> >>,
      << <<"repo">>, <<"src">>, <<"lib", ".rs", "~">> >>,
      << <<"repo">>, <<"src">>, <<"lib", ".rs", ".swp">> >>,
      << <<"repo">>, <<"src">>, <<".#", "lib", ".rs">> >>,
      << <<"repo">>, <<"src">>, <<"a", ".tmp.", "123">> >> }

\* the handler has run on wt_batch and the rebuild task has not yet taken
\* what it sent
WtHandled == program = "daemon watcher events" /\ wt_outcome = None

\* C16: for a non-empty batch the handler sends exactly one event: Reconfigure
\* when some path of the batch touches the config file, its directory or
\* .gitignore, otherwise FilesChanged carrying the batch; for an empty batch
\* it sends nothing.
C16_OneEventPerBatch ==
    WtHandled =>
        /\ wt_batch = {} => wt_ch = <<>>
        /\ wt_batch # {} =>
              /\ Len(wt_ch) = 1
              /\ IF wt_batch \cap TouchesConfig # {}
                 THEN wt_ch[1].type = "Reconfigure"
                 ELSE wt_ch[1] = [type |-> "FilesChanged", paths |-> wt_batch]

\* a batch that names only a parent directory of the config directory has
\* been answered with Reconfigure
C16_Witness ==
    /\ WtHandled
    /\ wt_batch = { << <<"repo">>, <<".config">> >> }
    /\ wt_ch = <<[type |-> "Reconfigure", paths |-> {}]>>

\* C17 as stated: a batch that consists only of editor temp artifacts emits no
\* Reconfigure and schedules no rebuild.
C17_TempOnlyBatchIsDropped ==
    (program = "daemon watcher events" /\ wt_batch # {} /\ wt_batch \subseteq TempArtifacts)
        => /\ \A i \in 1..Len(wt_ch) : wt_ch[i].type # "Reconfigure"
           /\ wt_outcome # "rebuild"

\* C17, amended: a batch that consists only of editor temp artifacts is
\* classified like any other batch; when none of its paths touches the config
\* directory it is sent as FilesChanged and the rebuild task, which removes
\* the temp artifacts, schedules no rebuild; when one of them lies inside the
\* config file's parent directory Reconfigure is sent and a rebuild is
\* scheduled.
C17_TempOnlyBatchOutsideConfigDir ==
    (program = "daemon watcher events" /\ wt_batch # {} /\ wt_batch \subseteq TempArtifacts)
        => IF wt_batch \cap TouchesConfig = {}
           THEN /\ \A i \in 1..Len(wt_ch) : wt_ch[i].type = "FilesChanged"
                /\ wt_outcome # "rebuild"
           ELSE /\ \A i \in 1..Len(wt_ch) : wt_ch[i].type = "Reconfigure"
                /\ wt_outcome # "skipped"

\* the rebuild task has skipped a batch of an emacs lock file and a backup file
C17_Witness ==
    /\ program = "daemon watcher events"
    /\ wt_batch = { << <<"repo">>, <<"src">>, <<".#", "lib", ".rs">> >>,
                    << <<"repo">>, <<"src">>, <<"lib", ".rs", "~">> >> }
    /\ wt_ch = <<>>
    /\ wt_outcome = "skipped"

C19_WatchedDirsFollowConfigEdit ==
    [][ (InSupervisor /\ sup_rebuild = "scheduled" /\ sup_rebuild' = "done" /\ cfg_disk.ok)
        => HealthOf(ws').watched_directories = WatchDirsOf(cfg_disk) ]_vars

(***************************************************************************)
(* Claims about the LSP bridge's diagnostics (bridge/lsp.rs).              *)
(***************************************************************************)
\* C20: after each publication of the workspace diagnostics, every path that
\* was published by the publication before and is absent from the new set
\* has been sent an empty list, and files_with_diagnostics names exactly the
\* files of the newly published set.
C20_StaleDiagnosticsAreCleared ==
    (InBridge /\ lsp_pc = "ready")
        => /\ UrisOf(lsp_before \ lsp_new) \subseteq lsp_cleared
           /\ UrisOf(files_with_diagnostics) = UrisOf(lsp_new)

(***************************************************************************)
(* Claims about diagnostics and validate.                                  *)
(***************************************************************************)
\* the snapshot has a diagnostic with this code for the marker
HasDiagnostic(snapshot, code, marker) ==
    \E d \in snapshot.workspace_diagnostics : d.code = code /\ d.marker = marker

\* the markers of a set that carry the prefix of a spec
WithPrefixOf(refs, spec) == { m \in refs : m.prefix = DgPrefix[spec] }

\* C13: validating a spec reports no diagnostic about a marker that carries
\* the other spec's prefix, and a rebuild after markers with other prefixes
\* were added or removed leaves the result of validating the spec unchanged.
C13_PrefixIsolation ==
    /\ [](InDiagnostics =>
            \A spec \in DgSpecs : \A d \in Validate(dg_snapshot, spec) :
                d.marker.prefix = DgPrefix[spec])
    /\ [][ \A spec \in DgSpecs :
              ( /\ dg_snapshot'.defs = dg_snapshot.defs
                /\ WithPrefixOf(dg_snapshot'.refs, spec) = WithPrefixOf(dg_snapshot.refs, spec) )
              => Validate(dg_snapshot', spec) = Validate(dg_snapshot, spec) ]_vars

\* a marker of beta was edited and rebuilt; it has a diagnostic, and so has a
\* marker of alpha
C13_Witness ==
    /\ InDiagnostics /\ ~DgDirty
    /\ dg_last = [kind |-> "marker", what |-> "shm"]
    /\ Validate(dg_snapshot, "alpha") # {}
    /\ Validate(dg_snapshot, "beta") # {}

\* C14: in every published snapshot each reference with the prefix of a spec
\* resolves to a definition with its base in that spec or has an orphaned
\* diagnostic; the rebuild after its rule was added removes the orphaned
\* diagnostic and lists an impl reference under the rule, and the rebuild
\* after its rule was removed adds the orphaned diagnostic.
C14_ReferencesResolveOrAreOrphaned ==
    /\ [](InDiagnostics =>
            \A m \in dg_snapshot.refs : \A spec \in SpecsWithPrefix(m.prefix) :
                \/ dg_snapshot.defs[spec][m.base] # NoRule
                \/ HasDiagnostic(dg_snapshot, "orphaned", m))
    /\ [][ \A m \in dg_snapshot'.refs : \A spec \in SpecsWithPrefix(m.prefix) :
              /\ (dg_snapshot.defs[spec][m.base] = NoRule /\ dg_snapshot'.defs[spec][m.base] # NoRule)
                   => /\ ~HasDiagnostic(dg_snapshot', "orphaned", m)
                      /\ m.verb = "impl"
                           => m \in dg_snapshot'.forward_by_impl[spec][m.base].impl_refs
              /\ (dg_snapshot.defs[spec][m.base] # NoRule /\ dg_snapshot'.defs[spec][m.base] = NoRule)
                   => HasDiagnostic(dg_snapshot', "orphaned", m) ]_vars

\* payment.checkout was added to alpha's spec at version 2 and the snapshot
\* rebuilt: the reference to it is no orphan and is listed under the rule
C14_Witness ==
    LET m == [prefix |-> "r", verb |-> "impl", base |-> "payment.checkout", suffix |-> <<>>]
    IN  /\ InDiagnostics /\ ~DgDirty
        /\ dg_last = [kind |-> "rule", what |-> "alpha"]
        /\ dg_snapshot.defs["alpha"]["payment.checkout"] = 2
        /\ m \in dg_snapshot.refs
        /\ ~HasDiagnostic(dg_snapshot, "orphaned", m)
        /\ m \in dg_snapshot.forward_by_impl["alpha"]["payment.checkout"].impl_refs

\* C15: a reference to base+N has a stale diagnostic exactly when the spec
\* with its prefix defines base+M with M > N, where N is 1 for a reference
\* written without a suffix; a stale diagnostic is a warning.
C15_StaleExactlyWhenNewerDefined ==
    InDiagnostics =>
        /\ \A m \in dg_snapshot.refs :
              LET N == IF m.suffix = <<>> THEN 1 ELSE m.suffix[1]
              IN  HasDiagnostic(dg_snapshot, "stale", m)
                    <=> \E spec \in SpecsWithPrefix(m.prefix) : dg_snapshot.defs[spec][m.base] > N
        /\ \A d \in dg_snapshot.workspace_diagnostics :
              d.code = "stale" => d.severity = "warning"

\* auth.login is now defined at version 2 and the reference without a suffix
\* is stale, the reference to auth.login+2 is not
C15_Witness ==
    LET old == [prefix |-> "r", verb |-> "impl", base |-> "auth.login", suffix |-> <<>>]
        new == [prefix |-> "r", verb |-> "impl", base |-> "auth.login", suffix |-> <<2>>]
    IN  /\ InDiagnostics /\ ~DgDirty
        /\ dg_last = [kind |-> "rule", what |-> "alpha"]
        /\ dg_snapshot.defs["alpha"]["auth.login"] = 2
        /\ dg_snapshot.refs = {old, new}
        /\ HasDiagnostic(dg_snapshot, "stale", old)
        /\ ~HasDiagnostic(dg_snapshot, "stale", new)

(***************************************************************************)
(* Claims about the idle exit of the accept loop (daemon/mod.rs).          *)
(***************************************************************************)
\* no connection is pending, open or closing
AcQuiet == \A c \in Conns : conn[c] \in {"unconnected", "gone"}

\* the 600 s of idleness and one more accept time-out end within the time the
\* model follows
AcInTime ==
    /\ clock + ACCEPT_TIMEOUT_SECS <= MaxClockSteps * ClockStep
    /\ last_activity + DEFAULT_IDLE_TIMEOUT_SECS <= MaxClockSteps * ClockStep

\* C30: when no connection is open, the daemon eventually removes its
\* endpoint and leaves the accept loop unless a client connects before; an
\* accept time-out at which no connection is counted and 600 s have passed
\* since the last activity does not select again.
C30_IdleDaemonExits ==
    /\ (InAcceptLoop /\ AcQuiet /\ AcInTime)
           ~> ((~InAcceptLoop /\ ~endpoint.file) \/ ~AcQuiet)
    /\ [][ (InAcceptLoop /\ select_wait >= ACCEPT_TIMEOUT_SECS /\ ~shutdown_rx.changed
             /\ active_connections = 0
             /\ clock - last_activity >= DEFAULT_IDLE_TIMEOUT_SECS
             /\ conn' = conn)
            => exit_path' = "idle" ]_vars

\* a connection came and went, and the daemon has left on the idle path
C30_Witness ==
    /\ exit_path = "idle"
    /\ ~endpoint.file
    /\ \E c \in Conns : conn[c] = "gone"
    /\ clock - last_change >= DEFAULT_IDLE_TIMEOUT_SECS

\* the watched paths that pass every filter of the FilesChanged arm, for each
\* state of the config file: under the project root, not a temp artifact, not
\* under target/ or .git/, not under src/gen/ when the config excludes it, and
\* matching an include glob in force when there is one
SurvivingPaths(config) ==
    IF ~config.loads
    THEN { << <<"repo">>, <<"docs">>, <<"spec", ".md">> >> }
    ELSE IF config.include = {}
    THEN { << <<"repo">> >>,
           << <<"repo">>, <<".configx">> >>,
           << <<"repo">>, <<"src">>, <<"lib", ".rs">> >>,
           << <<"repo">>, <<"README", ".md">> >>,
           << <<"repo">>, <<"docs">>, <<"spec", ".md">> >> }
    ELSE { << <<"repo">>, <<"src">>, <<"lib", ".rs">> >>,
           << <<"repo">>, <<"docs">>, <<"spec", ".md">> >> }

\* the rebuild task has dealt with the FilesChanged event of wt_batch
WtFilesChangedDone ==
    /\ program = "daemon watcher events"
    /\ wt_outcome # None
    /\ wt_batch # {}
    /\ wt_batch \cap TouchesConfig = {}

\* C29: a rebuild is scheduled for a FilesChanged batch exactly when at least
\* one of its paths, taken relative to the project root, is not a temp
\* artifact, is not git-ignored, matches no exclude glob and matches some
\* include glob (or there is no include glob); the rebuild receives exactly
\* the surviving paths, and a path matching both an exclude and an include
\* glob (src/gen/out.rs) is dropped.
C29_RebuildForSurvivingPaths ==
    WtFilesChangedDone =>
        /\ (wt_outcome = "rebuild") <=> (wt_batch \cap SurvivingPaths(wt_config) # {})
        /\ wt_changed = wt_batch \cap SurvivingPaths(wt_config)
        /\ << <<"repo">>, <<"src">>, <<"gen">>, <<"out", ".rs">> >> \notin wt_changed

\* a batch with an excluded and an included path has had its rebuild, with
\* the included path alone
C29_Witness ==
    /\ WtFilesChangedDone
    /\ wt_config = FullConfig
    /\ wt_batch = { << <<"repo">>, <<"src">>, <<"gen">>, <<"out", ".rs">> >>,
                    << <<"repo">>, <<"src">>, <<"lib", ".rs">> >> }
    /\ wt_outcome = "rebuild"
    /\ wt_changed = { << <<"repo">>, <<"src">>, <<"lib", ".rs">> >> }

\* glob_to_watch_dir has returned
GwReturned == program = "glob_to_watch_dir" /\ call_result # <<>>

\* C26: glob_to_watch_dir(g) returns the leading components of g that hold no
\* glob metacharacter (*, ?, [ or {), "." when the first component holds one,
\* and g itself when g holds none; the cases of watcher_tests.rs come out as
\* asserted there.
C26_WatchDirIsLiteralPrefix ==
    GwReturned =>
        LET g == call_args
            dir == call_result[1]
            Meta(c) == \E i \in DOMAIN c : c[i] \in {"*", "?", "[", "{"}
        IN  /\ Meta(g[1]) <=> (dir = << <<".">> >>)
            /\ ~Meta(g[1]) =>
                  /\ Len(dir) <= Len(g)
                  /\ \A i \in 1..Len(dir) : dir[i] = g[i] /\ ~Meta(dir[i])
                  /\ Len(dir) < Len(g) => Meta(g[Len(dir) + 1])
            /\ (\A i \in 1..Len(g) : ~Meta(g[i])) => dir = g
            /\ g = << <<"src">>, <<"*", ".rs">> >> => dir = << <<"src">> >>
            /\ g = << <<"src">>, <<"lib.rs">> >> => dir = << <<"src">>, <<"lib.rs">> >>
            /\ g = << <<"src">>, <<"?", ".rs">> >> => dir = << <<"src">> >>
            /\ g = << <<"src">>, <<"[", "abc", "]", ".rs">> >> => dir = << <<"src">> >>
            /\ g = << <<"src">>, <<"{", "foo,bar", "}", ".rs">> >> => dir = << <<"src">> >>
            /\ g = << <<"*", ".rs">> >> => dir = << <<".">> >>
            /\ g = GlobDocs => dir = << <<"docs">>, <<"spec">> >>
            /\ g = GlobNested => dir = << <<"crates">> >>

\* a glob whose second component holds a brace has been cut to its first
C26_Witness ==
    /\ GwReturned
    /\ call_args = << <<"src">>, <<"{", "foo,bar", "}", ".rs">> >>
    /\ call_result = << << <<"src">> >> >>

\* a function of positions.rs has returned or panicked
PosDone(fn) == program = "positions" /\ call_result # <<>> /\ call_args.fn = fn

\* the checked parts: ByteOffset::add and from_inclusive_bounds panic exactly
\* on overflow and on end < start, and otherwise return the exact value
PosCheckedParts ==
    /\ PosDone("ByteOffset::add") =>
          IF call_args.a + call_args.b > UsizeMax THEN call_result[1].panic
          ELSE call_result[1] = [panic |-> FALSE, value |-> call_args.a + call_args.b]
    /\ PosDone("from_inclusive_bounds") =>
          IF call_args.b < call_args.a \/ call_args.b - call_args.a + 1 > UsizeMax
          THEN call_result[1].panic
          ELSE call_result[1] = [panic |-> FALSE, value |-> call_args.b - call_args.a + 1]

\* C27: position arithmetic never wraps or saturates silently: ByteOffset::add
\* fails on overflow, ByteLength::from_inclusive_bounds fails when
\* end < start or on overflow, every LineNumber constructed is >= 1, and
\* is_immediately_after(a, b) holds exactly when a = b + 1.
C27_PositionArithmeticIsChecked ==
    /\ PosCheckedParts
    /\ (PosDone("from_zero_based") \/ PosDone("from_one_based")) =>
          (~call_result[1].panic => call_result[1].value >= 1)
    /\ PosDone("is_immediately_after") =>
          /\ ~call_result[1].panic
          /\ call_result[1].value <=> (call_args.a = call_args.b + 1)

\* markdown_code_mask has returned
MdReturned == program = "markdown_code_mask" /\ call_result # <<>>

\* what the structure of the text says about its bytes, line by line: TRUE
\* for the bytes of a fenced code block (its fences, its lines and their line
\* ends) and of an inline code span outside one, FALSE for the indentation
\* of the whole text and for every other byte
RECURSIVE MdExpected(_, _, _)
MdExpected(indent, kinds, in_fence) ==
    IF kinds = <<>> THEN <<>>
    ELSE LET kind == Head(kinds)
             own == [i \in 1..Len(MdContent(kind)) |->
                        in_fence \/ kind \in {"fence", "span"}]
             line_end == in_fence \/ kind = "fence"
         IN  (IF kind = "blank" THEN <<>> ELSE [i \in 1..indent |-> FALSE] \o own)
             \o <<line_end>>
             \o MdExpected(indent, Tail(kinds), IF kind = "fence" THEN ~in_fence ELSE in_fence)

RnDone == program = "lsp rename" /\ call_result # <<>>

\* C22: renaming a rule to its own current name produces zero text edits, for
\* every workspace content and for both entry points, the rename request and
\* the command 'rename unknown requirement'.
C22_RenameToSameNameHasNoEdits ==
    RnDone =>
        /\ (/\ call_args.entry = "rename"
            /\ call_args.position \in DOMAIN call_args.content
            /\ call_args.new_name = call_args.content[call_args.position].base)
              => call_result[1].edits = <<>>
        /\ (/\ call_args.entry = "command"
            /\ call_args.new_rule = call_args.old_rule)
              => call_result[1].edits = <<>>

\* the text after an edit: the pieces between the edit's positions replaced
ApplyTextEdit(content, edit) ==
    LET OffsetOf(position) ==
            CHOOSE offset \in 0..Len(content) :
                OffsetToLineCol(content, offset) = position
    IN  SubSeq(content, 1, OffsetOf(edit.range.start)) \o edit.new_text
        \o SubSeq(content, OffsetOf(edit.range.end) + 1, Len(content))

\* the base a rename is to give
RnNewBase ==
    IF call_args.entry = "rename" THEN call_args.new_name ELSE call_args.new_rule[1]

\* C23: every text edit produced by a rename replaces only the base part of
\* the rule id of a marker and leaves the marker's +version suffix as it
\* was, for references at every version.
C23_EditsRewriteOnlyTheBase ==
    RnDone =>
        \A e \in DOMAIN call_result[1].edits :
            \E k \in DOMAIN call_args.content :
                ApplyTextEdit(FileText(call_args.content), call_result[1].edits[e])
                    = FileText([call_args.content EXCEPT ![k].base = RnNewBase])

\* C28: a tool call whose cwd argument is missing, empty or not absolute
\* returns the corresponding error text, records it in last_tool_cwd_error
\* with last_tool_cwd cleared, leaves active_project_root unchanged and
\* sends no request to any daemon.
C28_InvalidCwdIsRejected ==
    [][ \A bad \in { <<[type |-> "absent", str |-> <<>>], CwdErrorMissing>>,
                     <<[type |-> "number", str |-> <<>>], CwdErrorMissing>>,
                     <<[type |-> "string", str |-> <<>>], CwdErrorEmpty>>,
                     <<[type |-> "string", str |-> <<" ">>], CwdErrorEmpty>>,
                     <<[type |-> "string", str |-> <<".">>], CwdErrorRelative(<<".">>)>>,
                     <<[type |-> "string", str |-> <<"src">>],
                       CwdErrorRelative(<<"src">>)>> } :
          (program = "mcp tools" /\ mcp_call'[1].cwd = bad[1]) =>
              /\ mcp_response' = <<[error |-> TRUE, text |-> bad[2]]>>
              /\ root_refresh_state'.last_tool_cwd_error = <<bad[2]>>
              /\ root_refresh_state'.last_tool_cwd = <<>>
              /\ root_refresh_state'.last_selected_root = root_refresh_state.last_selected_root
              /\ active_project_root' = active_project_root
              /\ mcp_sent' = {} ]_vars

\* a call with a relative cwd has been rejected after a call that had moved
\* the bridge from /other to /repo
C28_Witness ==
    /\ program = "mcp tools"
    /\ mcp_call # <<>> /\ mcp_call[1].cwd = [type |-> "string", str |-> <<"src">>]
    /\ active_project_root = <<"/", "repo">>
    /\ root_refresh_state.last_selected_root = << <<"/", "repo">> >>
    /\ root_refresh_state.last_tool_cwd = <<>>
    /\ root_refresh_state.last_tool_cwd_error = <<CwdErrorRelative(<<"src">>)>>
    /\ mcp_sent = {}

CvDone(fn) == program = "coverage" /\ call_result # <<>> /\ call_args.fn = fn

\* C25: in every status answer covered_rules <= total_rules and
\* verified_rules <= total_rules for every (spec, impl); in the reverse view
\* covered_units <= total_units for every file and for the workspace totals,
\* which are the sums over the files.
C25_CoveredNeverExceedsTotal ==
    /\ CvDone("status") =>
          \A impl \in CovImpls :
              /\ call_result[1][impl].covered_rules <= call_result[1][impl].total_rules
              /\ call_result[1][impl].verified_rules <= call_result[1][impl].total_rules
    /\ CvDone("reverse") =>
          LET reverse == call_result[1]
              Count(i, covered) ==
                  Cardinality({ u \in DOMAIN call_args.units_of[i] :
                                  covered => call_args.units_of[i][u].rule_refs # {} })
          IN  /\ \A f \in DOMAIN reverse.files :
                    reverse.files[f].covered_units <= reverse.files[f].total_units
              /\ reverse.covered_units <= reverse.total_units
              /\ reverse.total_units = Count(1, FALSE) + Count(2, FALSE)
              /\ reverse.covered_units = Count(1, TRUE) + Count(2, TRUE)

\* a status with a reference to a rule no spec defines and fewer covered
\* than total rules, and a reverse view with one covered unit of three
C25_Witness ==
    \/ /\ CvDone("status")
       /\ \E r \in call_args.refs : r.id = "ghost" /\ r.impl = "rust" /\ r.verb = "impl"
       /\ call_args.rules = {"auth.login"}
       /\ call_result[1]["rust"].covered_rules = 1
       /\ call_result[1]["swift"].covered_rules = 0
    \/ /\ CvDone("reverse")
       /\ Len(call_result[1].files) = 2
       /\ call_result[1].total_units = 3
       /\ call_result[1].covered_units = 1

\* C21: between vfs_open or vfs_change(path, content) and vfs_close(path)
\* every rebuild reads the path's content from the overlay, not from disk;
\* the first rebuild after vfs_close reads the on-disk content again.
C21_RebuildReadsOverlayWhileOpen ==
    [][ VfsRebuild =>
          \A path \in VfsPaths :
              vfs_read'[path] =
                  IF vfs_last[path].op \in {"vfs_open", "vfs_change"}
                  THEN vfs_last[path].content
                  ELSE vfs_disk[path] ]_vars

\* a.rs was opened and closed and is read from disk again, b.rs is held open
\* and is read from its buffer
C21_Witness ==
    /\ program = "lsp vfs"
    /\ vfs_last[<<"/", "repo", "/", "a.rs">>].op = "vfs_close"
    /\ vfs_read[<<"/", "repo", "/", "a.rs">>] = vfs_disk[<<"/", "repo", "/", "a.rs">>]
    /\ vfs_last[<<"/", "repo", "/", "b.rs">>] = [op |-> "vfs_change", content |-> "buffer 2"]
    /\ vfs_read[<<"/", "repo", "/", "b.rs">>] = "buffer 2"

\* the cache and the last call sent for a uri agree
CacheAgrees(uri) ==
    /\ documents[uri] # <<>> <=> vfs_sent[uri].op \in {"vfs_open", "vfs_change"}
    /\ documents[uri] # <<>> => documents[uri] = <<vfs_sent[uri].content>>

\* C39 as stated: for every sequence of didOpen, didChange, didSave and
\* didClose notifications a URI has cached content exactly when the last call
\* sent to the daemon for it is vfs_open or vfs_change, and the cached content
\* is the content of that call.
C39_CacheAgreesWithOverlays == KeepsSent => \A uri \in VfsUris : CacheAgrees(uri)

\* C39, amended: the same for file URIs whose last call did not carry a text
\* other than the cached one (a didSave with a text of its own).
C39_CacheAgreesForFileUris ==
    KeepsSent =>
        \A uri \in VfsUris :
            /\ UrlToFilePath(uri) # <<>>
            /\ vfs_sent[uri].op \in {"vfs_open", "vfs_change"}
                    => vfs_sent[uri].cached = <<vfs_sent[uri].content>>
            => CacheAgrees(uri)

\* a.rs was opened, changed, saved with its text and closed; b.rs is open
\* with its last change cached and sent
C39_Witness ==
    /\ KeepsSent
    /\ vfs_sent[[scheme |-> "file", path |-> <<"/", "repo", "/", "a.rs">>]].op = "vfs_close"
    /\ documents[[scheme |-> "file", path |-> <<"/", "repo", "/", "a.rs">>]] = <<>>
    /\ vfs_sent[[scheme |-> "file", path |-> <<"/", "repo", "/", "b.rs">>]]
           = [op |-> "vfs_change", content |-> "buffer 2", cached |-> <<"buffer 2">>]
    /\ documents[[scheme |-> "file", path |-> <<"/", "repo", "/", "b.rs">>]] = <<"buffer 2">>

\* the versions a snapshot may carry
SubVersions == ENGINE_FIRST_VERSION..(ENGINE_FIRST_VERSION + MaxEdits + MaxCalls + 1)

\* the subscriber has observed version v or a later one
SubObserved(v) == bridge.last_version # <<>> /\ bridge.last_version[1] >= v

\* C31: a subscriber that keeps receiving eventually observes the most
\* recently published version: while its channel holds a notification not yet
\* taken and the published version is v, it comes to observe v or a later
\* version, unless its stream ends first.
C31_SubscriberObservesLatest ==
    \A v \in SubVersions :
        (program = "daemon+lsp" /\ eng_sub.open /\ eng_sub.slot # <<>> /\ eng_data.version = v)
            ~> (SubObserved(v) \/ ~eng_sub.open)

\* the subscriber, whose stream never ended, has observed the published
\* version, which is above the first, and its channel is empty
C31_Witness ==
    /\ program = "daemon+lsp"
    /\ calls = 0
    /\ eng_sub.open /\ eng_sub.slot = <<>>
    /\ eng_data.version > ENGINE_FIRST_VERSION
    /\ bridge.last_version = <<eng_data.version>>

\* C32: the bridge publishes the workspace diagnostics for an update it takes
\* exactly when the update's version differs from the version of the last
\* update it took, before or after a re-subscription: an update that carries
\* the same version after a re-subscribe causes no publication.
C32_PublishesOnNewVersionOnly ==
    [][ BrRecv =>
          /\ bridge'.outcome = "published" <=> bridge.processed # <<Head(eng_sub.slot)>>
          /\ bridge'.outcome = "skipped" <=> bridge.processed = <<Head(eng_sub.slot)>> ]_vars

\* the stream of the bridge ended once; subscribed again, it took an update
\* of the version it had seen and published nothing
C32_Witness ==
    /\ program = "daemon+lsp"
    /\ calls > 0
    /\ eng_sub.open
    /\ bridge.outcome = "skipped"

\* the connection tasks that have not yet counted themselves out
CnRunning == { c \in Conns : conn[c] = "open" }

\* C33: however a connection's task ends (handshake failure, protocol
\* violation, I/O or dispatch error, or a clean close), only that connection
\* ends and the accept loop keeps running; active_connections goes up by one
\* at an accept and down by one when a task ends, so it always equals the
\* number of connection tasks still running and never goes below zero.
C33_FailureEndsOnlyItsConnection ==
    /\ [](KeepsConnEnd =>
            active_connections = Cardinality(CnRunning) /\ active_connections >= 0)
    /\ [][ \A c \in Conns :
             CnDriverEnds(c)
             => /\ active_connections' = active_connections - 1
                /\ \A other \in Conns \ {c} : conn'[other] = conn[other]
                /\ InAcceptLoop' /\ startup' = startup /\ endpoint' = endpoint ]_vars
    /\ [][ \A c \in Conns : AcAccept(c) => active_connections' = active_connections + 1 ]_vars

\* the task of connection 1 ended with a protocol violation, connection 2,
\* accepted afterwards, is served and the loop is still accepting
C33_Witness ==
    /\ KeepsConnEnd
    /\ conn_end[1] = "ProtocolViolation" /\ conn[1] = "gone"
    /\ conn_end[2] = None /\ conn[2] = "open"
    /\ active_connections = 1
    /\ InAcceptLoop

\* the lock a task is waiting for, and whether it is kept waiting
TaskAwaitsLock(t) ==
    IF task_pc[t] \in {"cwd_error", "write_state", "diagnostics_state", "lock_state"}
    THEN "root_refresh_state"
    ELSE IF task_pc[t] \in {"write_root", "current_client", "diagnostics_root"}
    THEN "active_project_root"
    ELSE None

LockHolder(lock) ==
    IF lock = "root_refresh_state" THEN state_lock
    ELSE IF lock = "active_project_root" THEN active_lock
    ELSE None

TaskBlocked(t) == LockHolder(TaskAwaitsLock(t)) \notin {None, t}

\* some task waits for a lock whose holder waits for a lock as well
TasksDeadlocked ==
    \E t \in ToolCalls \cup Refreshes :
        /\ TaskBlocked(t)
        /\ TaskBlocked(LockHolder(TaskAwaitsLock(t)))

\* C34: no interleaving of concurrent tool calls, roots refreshes and
\* routing-diagnostics reads deadlocks on the locks of active_project_root and
\* root_refresh_state, and no LSP handler is at an await point while it holds
\* the doc_state mutex.
C34_NoDeadlockOnBridgeLocks ==
    InTasks =>
        /\ ~TasksDeadlocked
        /\ \A h \in LspTasks : LspNext(h) = "await" => doc_lock # h

\* the refresh holds the state lock and awaits the root's lock, one tool call
\* waits for the state lock to store its cwd, the other to read the state for
\* its diagnostics; publish holds doc_state while did_open is at its await
C34_Witness ==
    /\ InTasks
    /\ state_lock = "refresh" /\ task_pc["refresh"] = "write_root"
    /\ task_pc["call 1"] = "write_state"
    /\ task_pc["call 2"] = "diagnostics_state"
    /\ doc_lock = "publish" /\ LspNext("did_open") = "await"

\* C38: each tool call is answered from the daemon of the project root
\* derived from that call's own cwd argument, for every interleaving of the
\* tool calls and roots refreshes that write active_project_root.
C38_CallAnsweredFromOwnRoot ==
    InTasks =>
        \A c \in ToolCalls :
            task_client[c] # <<>> => task_client[c] = <<FindProjectRootFrom(task_cwd[c][1])>>

\* C35: when the receiving side of the watcher channel has been closed the
\* file watcher stops cleanly: run_smart_watcher returns Ok and the
\* supervising loop is left, the watcher is not started again.
C35_WatcherStopsWhenChannelClosed ==
    (InSupervisor /\ sup_rebuild = "closed") ~> (sup_pc = "stopped")

\* the daemons bound to the workspace's endpoint and serving
DmServing == { d \in Daemons : startup[d].listener }

\* C36: at most one daemon is bound to and serving the workspace's endpoint
\* at any time, however the start-ups of several daemons interleave, and a
\* start-up never removes an endpoint that another daemon is serving.
C36_AtMostOneDaemonServes ==
    /\ [](program = "daemon start-up" => Cardinality(DmServing) <= 1)
    /\ [][ \A d \in Daemons :
             DmRemoveStale(d) => ~(endpoint.file /\ endpoint.owner \in DmServing \ {d}) ]_vars

\* C37: while a daemon is running for the workspace, daemon.pid exists and
\* holds that daemon's pid: no step of another invocation, taken while the
\* daemon serves the endpoint and stays serving, overwrites or removes the
\* daemon.pid that names it.
DmRunningWithPidFile(d) ==
    /\ program = "daemon start-up"
    /\ startup[d].listener
    /\ endpoint = [file |-> TRUE, owner |-> d]
    /\ pid_file = <<d>>

C37_PidFileIsTheRunningDaemons ==
    [][ \A d \in Daemons :
          (DmRunningWithPidFile(d) /\ startup'[d].listener) => pid_file' = <<d>> ]_vars
(***************************************************************************)
(* Claims about which rebuild results are published.                       *)
(***************************************************************************)
\* what the API handlers serve from a snapshot: /api/forward, /api/reverse,
\* /api/file (the code units of a file) and /api/config
ApiViews(data) ==
    [ forward |-> data.forward,
      reverse |-> data.reverse,
      code_units_by_file |-> data.code_units_by_file,
      config |-> data.config ]

\* C40: a rebuild that succeeds with data differing from the published
\* snapshot in any API-visible view publishes the new snapshot; a result is
\* discarded without publication only when every view is unchanged.
C40_VisibleDifferenceIsPublished ==
    [][ (SvRebuildEnd /\ ~BuildFails(sv_rb.config))
        => /\ ApiViews(SvBuilt) # ApiViews(sv_data)
                => /\ sv_data' # sv_data
                   /\ ApiViews(sv_data') = ApiViews(SvBuilt)
           /\ sv_data' = sv_data => ApiViews(SvBuilt) = ApiViews(sv_data) ]_vars

====
